---------------------------- MODULE Spec2Model ----------------------------
(***************************************************************************)
(* Backtest replay engine of valuecell: the two backtest data sources      *)
(* (BacktestDataSource, the paged intraday loader, and                     *)
(* StockBacktestDataSource, the daily loader), their candle cache, their   *)
(* simulated clock and their queries, the execution simulator              *)
(* StockPaperExecutionGateway, and the strategy runtime that creates a     *)
(* data source and reads its clock.                                        *)
(*                                                                         *)
(* Timestamps are small integers (milliseconds in the program).  A candle  *)
(* keeps the fields the queries read: ts, symbol, interval and close.      *)
(* Python floats are modelled exactly: a progress value is the rational    *)
(* <<num, den>> with den > 0.                                              *)
(***************************************************************************)
EXTENDS Integers, Sequences, FiniteSets, TLC

(***************************************************************************)
(* Bounds of the model                                                     *)
(***************************************************************************)
\* greatest timestamp a provider row carries
MaxTs == 2
\* rows the provider delivers while one interval is preloaded, all symbols together
MaxRows == 2
\* provider responses scripted for one symbol task (later requests get an empty page)
MaxPages == 2
\* greatest lookback a query asks for
MaxLookback == 2
\* greatest end_ts of the clock-only specification
MaxEnd == 10
\* greatest delta handed to advance_time
MaxAdvance == 8
\* most negative delta handed to advance_time is -MaxBack
MaxBack == 1
\* how far the explored clock may run past end_ts / below start_ts
MaxOver == 1
MaxUnder == 1
\* preload_data calls made on one data source
MaxCalls == 2
\* candles one symbol task collects when its pages arrive one at a time
MaxTaskCandles == 2
\* requests counted per symbol task; the count stays there while paging goes on
MaxCounted == 3

VARIABLES
    variant,            \* "crypto": BacktestDataSource, "stock": StockBacktestDataSource
    start_ts,           \* self._start_ts
    end_ts,             \* self._end_ts
    current_ts,         \* self._current_ts
    candle_cache,       \* self._candle_cache: symbol -> interval -> list of candles
    is_preloaded,       \* self._is_preloaded
    preload_completed,  \* history: some preload_data call has returned normally
    inflight,           \* the preload_data call in progress: its intervals still to load
    since_reset,        \* history: sum of the deltas advanced since construction / last reset
    provider,           \* history: what the provider answered the tasks of the last _preload_interval
    gateway,            \* the StockPaperExecutionGateway: its configuration and self.executed
    passes,             \* the preload_data calls made, each with the symbol tasks of its interval
    runtime,            \* create_strategy_runtime and the StrategyRuntime it returns
    item_store,         \* the conversation items held by each of the two item stores
    ret                 \* the last call: its name, arguments and return value

vars == <<variant, start_ts, end_ts, current_ts, candle_cache, is_preloaded,
          preload_completed, inflight, since_reset, provider, gateway, passes, runtime,
          item_store, ret>>

clockVars == <<start_ts, end_ts, current_ts>>

(***************************************************************************)
(* Helpers                                                                 *)
(***************************************************************************)
Last(s) == s[Len(s)]
Front(s) == SubSeq(s, 1, Len(s) - 1)
Range(s) == {s[i] : i \in 1..Len(s)}
Max2(a, b) == IF a >= b THEN a ELSE b
Min2(a, b) == IF a <= b THEN a ELSE b

\* rationals <<num, den>>, den > 0
RatLeq(p, q) == p[1] * q[2] <= q[1] * p[2]
RatEq(p, q) == p[1] * q[2] = q[1] * p[2]
Hundred == <<100, 1>>
Zero == <<0, 1>>

\* the record of a call
Call(op, args, val) == [op |-> op, args |-> args, val |-> val]

(***************************************************************************)
(* Simulated clock                                                         *)
(***************************************************************************)
\* self._current_ts += interval_ms
AdvancedTsClamped(cur, interval_ms) == Min2(cur + interval_ms, Max2(cur, end_ts))
AdvancedTsBackward(cur, interval_ms) == cur - interval_ms
AdvancedTs(cur, interval_ms) == cur + interval_ms

\* return self._current_ts >= self._end_ts
IsFinishedStrict(cur, endTs) == cur > endTs
IsFinished(cur, endTs) == cur >= endTs

\* get_progress_pct: 100.0 for a degenerate range, else min(100.0, elapsed / total * 100.0)
ProgressPctUnclamped(cur, startTs, endTs) ==
    IF endTs <= startTs THEN Hundred
    ELSE <<(cur - startTs) * 100, endTs - startTs>>
ProgressPct(cur, startTs, endTs) ==
    IF endTs <= startTs THEN Hundred
    ELSE LET elapsed == cur - startTs
             total == endTs - startTs
             pct == <<elapsed * 100, total>>
         IN IF RatLeq(Hundred, pct) THEN Hundred ELSE pct

\* the values of the clock this model explores
ClockLo == start_ts - MaxUnder
ClockHi == Max2(start_ts, end_ts) + MaxOver
Deltas == (0 - MaxBack)..MaxAdvance

advance_time(interval_ms) ==
    /\ AdvancedTs(current_ts, interval_ms) \in ClockLo..ClockHi
    /\ current_ts' = AdvancedTs(current_ts, interval_ms)
    /\ since_reset' = since_reset + interval_ms
    /\ ret' = Call("advance_time", <<interval_ms>>, "None")
    /\ UNCHANGED <<variant, item_store, provider, gateway, passes, runtime, start_ts, end_ts, candle_cache, is_preloaded, preload_completed, inflight>>

reset ==
    /\ current_ts' = start_ts
    /\ since_reset' = 0
    /\ ret' = Call("reset", <<>>, "None")
    /\ UNCHANGED <<variant, item_store, provider, gateway, passes, runtime, start_ts, end_ts, candle_cache, is_preloaded, preload_completed, inflight>>

is_finished ==
    /\ ret' = Call("is_finished", <<>>, IsFinished(current_ts, end_ts))
    /\ UNCHANGED <<variant, item_store, provider, gateway, passes, runtime, clockVars, candle_cache, is_preloaded, preload_completed, inflight, since_reset>>

get_progress_pct ==
    /\ ret' = Call("get_progress_pct", <<>>, ProgressPct(current_ts, start_ts, end_ts))
    /\ UNCHANGED <<variant, item_store, provider, gateway, passes, runtime, clockVars, candle_cache, is_preloaded, preload_completed, inflight, since_reset>>

get_current_ts ==
    /\ ret' = Call("get_current_ts", <<>>, current_ts)
    /\ UNCHANGED <<variant, item_store, provider, gateway, passes, runtime, clockVars, candle_cache, is_preloaded, preload_completed, inflight, since_reset>>

(***************************************************************************)
(* The historical data provider                                            *)
(***************************************************************************)
\* self._symbols of the data source
ConfiguredSymbols == <<"A", "B">>
Intervals == {"1m", "1d"}
Variants == {"crypto", "stock"}

\* a raw OHLCV row <<ts, close>>; the provider quotes one price per timestamp
PriceAt(ts) == 10 + ts
Rows == {<<t, PriceAt(t)>> : t \in 0..MaxTs}

\* one response of the provider: a page of rows, or an exception
ErrResponse == [err |-> TRUE, rows |-> <<>>]
EmptyPage == [err |-> FALSE, rows |-> <<>>]
PagesOf(n) == [1..n -> Rows]

\* what the provider answers to the successive requests of one symbol task:
\* at most p responses carrying at most b rows; a script ends at an exception,
\* and every request past its end is answered with an empty page
RECURSIVE Scripts(_, _)
Scripts(p, b) ==
    IF p = 0 THEN {<<>>}
    ELSE {<<>>, <<ErrResponse>>}
         \cup UNION {{<<[err |-> FALSE, rows |-> pg]>> \o s : s \in Scripts(p - 1, b - n)}
                       : <<n, pg>> \in UNION {{n} \X PagesOf(n) : n \in 1..b}}

\* the provider as one symbol task meets it; only the intraday loader builds a
\* client outside its try block (get_exchange_cls / exchange_cls may raise)
Behaviours(v, b) ==
    IF v = "crypto"
    THEN {[ctor_raises |-> FALSE, script |-> s] : s \in Scripts(MaxPages, b)}
         \cup {[ctor_raises |-> TRUE, script |-> <<>>]}
    ELSE {[ctor_raises |-> FALSE, script |-> s] : s \in Scripts(1, b)}

RECURSIVE RowsIn(_)
RowsIn(script) == IF script = <<>> THEN 0 ELSE Len(script[1].rows) + RowsIn(Tail(script))

\* the provider as the n symbol tasks of one interval meet it, b rows in all
RECURSIVE Worlds(_, _, _)
Worlds(v, n, b) ==
    IF n = 0 THEN {<<>>}
    ELSE UNION {{<<x>> \o w : w \in Worlds(v, n - 1, b - RowsIn(x.script))}
                : x \in Behaviours(v, b)}

(***************************************************************************)
(* Historical data loader                                                  *)
(***************************************************************************)
\* intervals = intervals or ["1m"] (intraday loader) / ["1d"] (daily loader)
DefaultInterval(v) == IF v = "crypto" THEN "1m" ELSE "1d"
EffectiveIntervals(v, intervals) == IF intervals = <<>> THEN <<DefaultInterval(v)>> ELSE intervals

ResponseAt(script, i) == IF i <= Len(script) THEN script[i] ELSE EmptyPage

\* for row in raw: if ts > self._end_ts: break; candles.append(Candle(...))
RowsUnchecked(raw, endTs) == raw
RECURSIVE RowsUntilBeyond(_, _)
RowsUntilBeyond(raw, endTs) ==
    IF raw = <<>> THEN <<>>
    ELSE IF raw[1][1] > endTs THEN <<>>
    ELSE <<raw[1]>> \o RowsUntilBeyond(Tail(raw), endTs)

ToCandle(row, symbol, interval) ==
    [ts |-> row[1], symbol |-> symbol, interval |-> interval, close |-> row[2]]
ToCandles(rows, symbol, interval) ==
    [i \in 1..Len(rows) |-> ToCandle(rows[i], symbol, interval)]

\* the while loop of the intraday _fetch_symbol: sinces are the since arguments
\* of the requests made so far, the last of them being answered now
RECURSIVE PageLoop(_, _, _, _, _, _)
PageLoop(script, sinces, candles, symbol, interval, endTs) ==
    LET raw == ResponseAt(script, Len(sinces))
    IN  IF raw.err
        THEN [raised |-> FALSE, failed |-> TRUE, candles |-> <<>>, sinces |-> sinces]
        ELSE IF raw.rows = <<>>
        THEN [raised |-> FALSE, failed |-> FALSE, candles |-> candles, sinces |-> sinces]
        ELSE LET acc == candles \o ToCandles(RowsUntilBeyond(raw.rows, endTs), symbol, interval)
                 last_ts == Last(raw.rows)[1]
             IN  IF last_ts >= endTs
                 THEN [raised |-> FALSE, failed |-> FALSE, candles |-> acc, sinces |-> sinces]
                 ELSE PageLoop(script, Append(sinces, last_ts + 1), acc, symbol, interval, endTs)

\* BacktestDataSource._preload_interval._fetch_symbol
fetch_symbol_crypto(beh, symbol, interval, startTs, endTs) ==
    IF beh.ctor_raises
    THEN [raised |-> TRUE, failed |-> TRUE, candles |-> <<>>, sinces |-> <<>>]
    ELSE PageLoop(beh.script, <<startTs>>, <<>>, symbol, interval, endTs)

\* StockBacktestDataSource._preload_interval._fetch_symbol: one ranged request
fetch_symbol_stock(beh, symbol, interval, startTs, endTs) ==
    LET data == ResponseAt(beh.script, 1)
    IN  IF data.err
        THEN [raised |-> FALSE, failed |-> TRUE, candles |-> <<>>, sinces |-> <<startTs>>]
        ELSE IF data.rows = <<>>
        THEN [raised |-> FALSE, failed |-> FALSE, candles |-> <<>>, sinces |-> <<startTs>>]
        ELSE [raised |-> FALSE, failed |-> FALSE,
              candles |-> ToCandles(RowsUntilBeyond(data.rows, endTs), symbol, interval),
              sinces |-> <<startTs>>]

fetch_symbol(v, beh, symbol, interval, startTs, endTs) ==
    IF v = "crypto" THEN fetch_symbol_crypto(beh, symbol, interval, startTs, endTs)
    ELSE fetch_symbol_stock(beh, symbol, interval, startTs, endTs)

\* sorted(candles, key=lambda c: c.ts): stable
AsDelivered(candles) == candles
InsertByTs(sorted, c) ==
    SelectSeq(sorted, LAMBDA x : x.ts <= c.ts) \o <<c>> \o SelectSeq(sorted, LAMBDA x : x.ts > c.ts)
RECURSIVE SortedByTs(_)
SortedByTs(candles) ==
    IF candles = <<>> THEN <<>> ELSE InsertByTs(SortedByTs(Front(candles)), Last(candles))

\* self._candle_cache.get(symbol, {}).get(interval, [])
CacheGet(cache, symbol, interval) ==
    IF symbol \in DOMAIN cache /\ interval \in DOMAIN cache[symbol]
    THEN cache[symbol][interval] ELSE <<>>

\* self._candle_cache[symbol][interval] = value (the cache is a defaultdict)
CacheSet(cache, symbol, interval, value) ==
    LET inner == IF symbol \in DOMAIN cache THEN cache[symbol] ELSE [k \in {} |-> <<>>]
        inner2 == [k \in DOMAIN inner \cup {interval} |-> IF k = interval THEN value ELSE inner[k]]
    IN  [s \in DOMAIN cache \cup {symbol} |-> IF s = symbol THEN inner2 ELSE cache[s]]

\* for symbol, candles in zip(self._symbols, results): store the sorted list
RECURSIVE StoreResults(_, _, _, _)
StoreResults(cache, symbols, results, interval) ==
    IF symbols = <<>> \/ results = <<>> THEN cache
    ELSE StoreResults(CacheSet(cache, symbols[1], interval, SortedByTs(results[1].candles)),
                      Tail(symbols), Tail(results), interval)

RECURSIVE RequestsOf(_)
RequestsOf(results) ==
    IF results = <<>> THEN 0 ELSE Len(results[1].sinces) + RequestsOf(Tail(results))

Idle == [pending |-> <<>>, args |-> <<>>, requests |-> 0]
\* the intervals argument of preload_data: None, or one interval
IntervalLists == {<<>>, <<"1m">>, <<"1d">>}

\* preload_data up to its first await: the flag check, or the start of a pass
preload_data_unguarded(intervals) ==
    /\ inflight = Idle
    /\ inflight' = [pending |-> EffectiveIntervals(variant, intervals),
                    args |-> <<intervals>>, requests |-> 0]
    /\ UNCHANGED <<variant, item_store, provider, gateway, passes, runtime, clockVars, candle_cache, is_preloaded, preload_completed,
                   since_reset, ret>>
preload_data(intervals) ==
    /\ inflight = Idle
    /\ IF is_preloaded
       THEN /\ ret' = Call("preload_data", <<intervals>>, [outcome |-> "skipped", requests |-> 0])
            /\ UNCHANGED inflight
       ELSE /\ inflight' = [pending |-> EffectiveIntervals(variant, intervals),
                            args |-> <<intervals>>, requests |-> 0]
            /\ UNCHANGED ret
    /\ UNCHANGED <<variant, item_store, provider, gateway, passes, runtime, clockVars, candle_cache, is_preloaded, preload_completed, since_reset>>

\* one _preload_interval of the pass in progress: every symbol task runs to its
\* end, asyncio.gather joins them, the sorted results are stored; after the last
\* interval preload_data sets the flag and returns.  A task that raises makes
\* gather, _preload_interval and preload_data raise before anything is stored.
preload_interval_in(world) ==
    /\ inflight.pending # <<>>
    /\   LET interval == Head(inflight.pending)
             results == [j \in 1..Len(ConfiguredSymbols) |->
                            fetch_symbol(variant, world[j], ConfiguredSymbols[j], interval,
                                         start_ts, end_ts)]
             requests == inflight.requests + RequestsOf(results)
             last == Tail(inflight.pending) = <<>>
         IN  IF \E j \in 1..Len(results) : results[j].raised
             THEN /\ inflight' = Idle
                  /\ ret' = Call("preload_data", inflight.args,
                                 [outcome |-> "raised", requests |-> requests])
                  /\ UNCHANGED <<candle_cache, is_preloaded, preload_completed>>
             ELSE /\ candle_cache' = StoreResults(candle_cache, ConfiguredSymbols, results, interval)
                  /\ is_preloaded' = (is_preloaded \/ last)
                  /\ preload_completed' = (preload_completed \/ last)
                  /\ inflight' = IF last THEN Idle
                                 ELSE [inflight EXCEPT !.pending = Tail(@), !.requests = requests]
                  /\ ret' = IF last
                            THEN Call("preload_data", inflight.args,
                                      [outcome |-> "returned", requests |-> requests])
                            ELSE ret
    /\ UNCHANGED <<variant, item_store, gateway, passes, runtime, clockVars, since_reset>>

\* the step with the provider's answers left unrecorded
preload_interval ==
    /\ \E world \in Worlds(variant, Len(ConfiguredSymbols), MaxRows) : preload_interval_in(world)
    /\ UNCHANGED provider

\* the same step, recording the provider's answers
preload_interval_observed ==
    \E world \in Worlds(variant, Len(ConfiguredSymbols), MaxRows) :
        /\ preload_interval_in(world)
        /\ provider' = world

(***************************************************************************)
(* Queries                                                                 *)
(***************************************************************************)
\* available = [c for c in candles if c.ts <= self._current_ts]
AvailableUnfiltered(cache, symbol, interval, cur) == CacheGet(cache, symbol, interval)
Available(cache, symbol, interval, cur) ==
    SelectSeq(CacheGet(cache, symbol, interval), LAMBDA c : c.ts <= cur)

\* Python's seq[start:]
PySliceFrom(seq, start) ==
    LET n == Len(seq)
        from == IF start < 0 THEN Max2(n + start, 0) ELSE Min2(start, n)
    IN  SubSeq(seq, from + 1, n)

\* available[-lookback:] if available else []
RecentOf(available, lookback) ==
    IF available = <<>> THEN <<>> ELSE PySliceFrom(available, 0 - lookback)

\* the loop of get_recent_candles
RECURSIVE RecentCandles(_, _, _, _, _)
RecentCandles(cache, cur, symbols, interval, lookback) ==
    IF symbols = <<>> THEN <<>>
    ELSE RecentOf(Available(cache, symbols[1], interval, cur), lookback)
         \o RecentCandles(cache, cur, Tail(symbols), interval, lookback)

\* the interval get_market_snapshot reads
PrimaryInterval(v) == IF v = "crypto" THEN "1m" ELSE "1d"

\* latest = available[-1]
EarliestOf(available) == available[1]
LatestOf(available) == available[Len(available)]

\* the loop of get_market_snapshot: the dict it returns
MarketSnapshot(cache, cur, symbols, primary) ==
    LET present == {s \in Range(symbols) : Available(cache, s, primary, cur) # <<>>}
    IN  [s \in present |->
            LET latest == LatestOf(Available(cache, s, primary, cur))
            IN  [symbol |-> s, timestamp |-> latest.ts, last |-> latest.close,
                 close |-> latest.close]]

\* the symbol lists a query is made with: one symbol, both in either order, and
\* an unknown symbol ahead of a known one
QuerySymbolLists == {<<"A">>, <<"A", "B">>, <<"B", "A">>, <<"Z", "B">>}
Lookbacks == 0..MaxLookback

get_recent_candles(symbols, interval, lookback) ==
    /\ ret' = Call("get_recent_candles", <<symbols, interval, lookback>>,
                   RecentCandles(candle_cache, current_ts, symbols, interval, lookback))
    /\ UNCHANGED <<variant, item_store, provider, gateway, passes, runtime, clockVars, candle_cache, is_preloaded, preload_completed,
                   inflight, since_reset>>

get_market_snapshot(symbols) ==
    /\ ret' = Call("get_market_snapshot", <<symbols>>,
                   MarketSnapshot(candle_cache, current_ts, symbols, PrimaryInterval(variant)))
    /\ UNCHANGED <<variant, item_store, provider, gateway, passes, runtime, clockVars, candle_cache, is_preloaded, preload_completed,
                   inflight, since_reset>>

(***************************************************************************)
(* Execution simulator: StockPaperExecutionGateway                         *)
(*                                                                         *)
(* An optional value is <<>> (None) or <<v>>.  Prices, fees and quantities *)
(* are exact: a money amount is a rational <<num, den>> in lowest terms.   *)
(***************************************************************************)
\* instructions one gateway's log holds at most
MaxExecuted == 2

Nothing == <<>>
Some(v) == <<v>>

RECURSIVE Gcd(_, _)
Gcd(a, b) == IF b = 0 THEN a ELSE Gcd(b, a % b)
Abs(a) == IF a < 0 THEN 0 - a ELSE a
Rat(num, den) == LET g == Gcd(Abs(num), den) IN <<num \div g, den \div g>>

\* __init__
StockPaperExecutionGateway(fee_bps, fee_per_share, slippage_bps, enforce_market_hours) ==
    [fee_bps |-> fee_bps, fee_per_share |-> fee_per_share, slippage_bps |-> slippage_bps,
     enforce_market_hours |-> enforce_market_hours, executed |-> <<>>]

DefaultGateway == StockPaperExecutionGateway(10, 0, 10, TRUE)

\* the gateways explored: hours enforced or not, default slippage 0 or 10 bps,
\* no fees or 10 bps plus 1 per share
Gateways ==
    {StockPaperExecutionGateway(f[1], f[2], sl, en) :
        f \in {<<0, 0>>, <<10, 1>>}, sl \in {0, 10}, en \in BOOLEAN}

\* what the price service answers one lookup
PriceAnswers ==
    {[kind |-> "raises", value |-> 0], [kind |-> "nothing", value |-> 0],
     [kind |-> "price", value |-> 0], [kind |-> "price", value |-> 5]}

\* the world as one instruction meets it: is_us_market_open() and the lookup
MarketStates == [open : BOOLEAN, answer : PriceAnswers]

\* the price map of the market features handed to execute
PriceMaps ==
    {[s \in {} |-> 0], [s \in {"A"} |-> 3], [s \in {"A", "B"} |-> IF s = "A" THEN 0 ELSE 3]}

\* _get_current_price: None when the service raises or has nothing
get_current_price(answer) ==
    IF answer.kind = "price" THEN Some(answer.value) ELSE Nothing

\* derive_side_from_action
derive_side_from_action(action) ==
    CASE action = "to_buy" -> "BUY"
      [] action = "to_sell" -> "SELL"
      [] OTHER -> "None"

\* side = inst.side or derive_side_from_action(inst.action) or TradeSide.BUY
ResolveSideActionFirst(inst) ==
    IF derive_side_from_action(inst.action) # "None" THEN derive_side_from_action(inst.action)
    ELSE IF inst.side # "None" THEN inst.side
    ELSE "BUY"
ResolveSide(inst) ==
    IF inst.side # "None" THEN inst.side
    ELSE IF derive_side_from_action(inst.action) # "None"
    THEN derive_side_from_action(inst.action)
    ELSE "BUY"

\* the reference price after both sources: _get_current_price, then
\* float(price_map.get(symbol, 0.0) or 0.0)
RefPricePrimaryOnly(primary, price_map, symbol) ==
    IF primary # Nothing /\ primary[1] > 0 THEN primary[1] ELSE 0
RefPrice(primary, price_map, symbol) ==
    IF primary # Nothing /\ primary[1] > 0 THEN primary[1]
    ELSE IF symbol \in DOMAIN price_map THEN price_map[symbol] ELSE 0

\* slip_bps = float(inst.max_slippage_bps or self._slippage_bps)
SlipBpsWorn(gw, inst) == gw.slippage_bps + Len(gw.executed)
SlipBps(gw, inst) ==
    IF inst.max_slippage_bps # Nothing /\ inst.max_slippage_bps[1] # 0
    THEN inst.max_slippage_bps[1] ELSE gw.slippage_bps

\* exec_price = ref_price * (1.0 + slip) for a BUY, ref_price * (1.0 - slip) otherwise
ExecPriceInflated(side, ref_price, slip_bps) == Rat(ref_price * (10000 + slip_bps), 10000)
ExecPrice(side, ref_price, slip_bps) ==
    IF side = "BUY" THEN Rat(ref_price * (10000 + slip_bps), 10000)
    ELSE Rat(ref_price * (10000 - slip_bps), 10000)

\* fee_cost = notional * (fee_bps / 10_000) + qty * fee_per_share
FeeCost(gw, exec_price, qty) ==
    Rat(exec_price[1] * qty * gw.fee_bps + qty * gw.fee_per_share * exec_price[2] * 10000,
        exec_price[2] * 10000)

Rejected(inst, side, reason) ==
    [instruction_id |-> inst.instruction_id, instrument |-> inst.instrument, side |-> side,
     requested_qty |-> inst.quantity, filled_qty |-> 0, avg_exec_price |-> Nothing,
     slippage_bps |-> Nothing, fee_cost |-> Nothing, status |-> "REJECTED", reason |-> reason]

FilledShort(gw, inst, side, ref_price) ==
    LET slip_bps == SlipBps(gw, inst)
        exec_price == ExecPrice(side, ref_price, slip_bps)
    IN  [instruction_id |-> inst.instruction_id, instrument |-> inst.instrument, side |-> side,
         requested_qty |-> inst.quantity, filled_qty |-> inst.quantity - 1,
         avg_exec_price |-> Some(exec_price),
         slippage_bps |-> IF slip_bps > 0 THEN Some(slip_bps) ELSE Nothing,
         fee_cost |-> Nothing, status |-> "FILLED", reason |-> "None"]
Filled(gw, inst, side, ref_price) ==
    LET slip_bps == SlipBps(gw, inst)
        exec_price == ExecPrice(side, ref_price, slip_bps)
        fee_cost == FeeCost(gw, exec_price, inst.quantity)
    IN  [instruction_id |-> inst.instruction_id, instrument |-> inst.instrument, side |-> side,
         requested_qty |-> inst.quantity, filled_qty |-> inst.quantity,
         avg_exec_price |-> Some(exec_price),
         slippage_bps |-> IF slip_bps > 0 THEN Some(slip_bps) ELSE Nothing,
         fee_cost |-> IF fee_cost[1] > 0 THEN Some(fee_cost) ELSE Nothing,
         status |-> "FILLED", reason |-> "None"]

\* one iteration of the loop of execute: the result appended, and the symbols
\* whose price was looked up
ExecuteOnePriceFirst(gw, inst, market, price_map) ==
    LET side == ResolveSide(inst)
        ref_price == RefPrice(get_current_price(market.answer), price_map, inst.instrument)
    IN  [result |-> IF gw.enforce_market_hours /\ ~market.open
                    THEN Rejected(inst, side, "market_closed")
                    ELSE IF ref_price <= 0 THEN Rejected(inst, side, "no_price_data")
                    ELSE Filled(gw, inst, side, ref_price),
         lookups |-> <<inst.instrument>>]
ExecuteOne(gw, inst, market, price_map) ==
    LET side == ResolveSide(inst)
    IN  IF gw.enforce_market_hours /\ ~market.open
        THEN [result |-> Rejected(inst, side, "market_closed"), lookups |-> <<>>]
        ELSE LET ref_price == RefPrice(get_current_price(market.answer), price_map,
                                       inst.instrument)
             IN  [result |-> IF ref_price <= 0 THEN Rejected(inst, side, "no_price_data")
                             ELSE Filled(gw, inst, side, ref_price),
                  lookups |-> <<inst.instrument>>]

\* the loop of execute
RECURSIVE ExecuteAllFills(_, _, _, _)
ExecuteAllFills(gw, instructions, markets, price_map) ==
    IF instructions = <<>> THEN [results |-> <<>>, lookups |-> <<>>]
    ELSE LET one == ExecuteOne(gw, Head(instructions), Head(markets), price_map)
             rest == ExecuteAllFills(gw, Tail(instructions), Tail(markets), price_map)
         IN  [results |-> (IF one.result.status = "FILLED" THEN <<one.result>> ELSE <<>>)
                          \o rest.results,
              lookups |-> one.lookups \o rest.lookups]
RECURSIVE ExecuteAll(_, _, _, _)
ExecuteAll(gw, instructions, markets, price_map) ==
    IF instructions = <<>> THEN [results |-> <<>>, lookups |-> <<>>]
    ELSE LET one == ExecuteOne(gw, Head(instructions), Head(markets), price_map)
             rest == ExecuteAll(gw, Tail(instructions), Tail(markets), price_map)
         IN  [results |-> <<one.result>> \o rest.results,
              lookups |-> one.lookups \o rest.lookups]

TradeInstruction(id, symbol, side, action, quantity, max_slippage_bps) ==
    [instruction_id |-> id, instrument |-> symbol, side |-> side, action |-> action,
     quantity |-> quantity, max_slippage_bps |-> max_slippage_bps]

\* the instructions explored: both symbols, each way a side is resolved, one
\* share or two, no slippage override, an override of 0 and one of 5 bps
InstructionPool ==
    {TradeInstruction("i1", "A", "BUY", "None", 1, Nothing),
     TradeInstruction("i2", "A", "SELL", "None", 2, Nothing),
     TradeInstruction("i3", "B", "None", "to_sell", 1, Some(5)),
     TradeInstruction("i4", "B", "None", "None", 2, Some(5)),
     TradeInstruction("i5", "A", "None", "to_buy", 2, Some(0)),
     TradeInstruction("i6", "B", "SELL", "to_buy", 1, Some(0))}

PairPool == {i \in InstructionPool : i.instruction_id \in {"i2", "i4", "i6"}}

InstructionLists ==
    {<<>>} \cup {<<i>> : i \in InstructionPool} \cup {<<i, j>> : i \in PairPool, j \in PairPool}

\* execute(instructions, market_features); markets[k] is the world as the k-th
\* instruction meets it
execute(instructions, markets, price_map) ==
    /\ Len(markets) = Len(instructions)
    /\ Len(gateway.executed) + Len(instructions) <= MaxExecuted
    /\ LET run == ExecuteAll(gateway, instructions, markets, price_map)
       IN  /\ gateway' = [gateway EXCEPT !.executed = @ \o instructions]
           /\ ret' = Call("execute", <<instructions, markets, price_map>>, run)
    /\ UNCHANGED <<variant, item_store, provider, passes, runtime, clockVars, candle_cache, is_preloaded,
                   preload_completed, inflight, since_reset>>

(***************************************************************************)
(* Market hours                                                            *)
(***************************************************************************)
\* datetime.time(hour, minute, second) with the tenths of the second past
Time(hour, minute, second, tenth) ==
    [hour |-> hour, minute |-> minute, second |-> second, tenth |-> tenth]

\* a <= b on times: field by field, the hour first
TimeLeq(a, b) ==
    \/ a.hour < b.hour
    \/ a.hour = b.hour /\ a.minute < b.minute
    \/ a.hour = b.hour /\ a.minute = b.minute /\ a.second < b.second
    \/ a.hour = b.hour /\ a.minute = b.minute /\ a.second = b.second /\ a.tenth <= b.tenth

\* the US/Eastern local instants explored: weekday() is 0 for Monday .. 6 for Sunday
Weekdays == 0..6
LocalTimes ==
    {Time(h, m, sec, tenth) :
        h \in {0, 9, 10, 15, 16, 17, 23}, m \in {0, 29, 30, 31, 59}, sec \in {0, 59}, tenth \in {0, 1}}

\* is_us_market_open at the local instant now
MarketOpenBeforeClose(weekday, now_time) ==
    IF weekday >= 5 THEN FALSE
    ELSE TimeLeq(Time(9, 30, 0, 0), now_time) /\ ~TimeLeq(Time(16, 0, 0, 0), now_time)
MarketOpenAt(weekday, now_time) ==
    IF weekday >= 5 THEN FALSE
    ELSE TimeLeq(Time(9, 30, 0, 0), now_time) /\ TimeLeq(now_time, Time(16, 0, 0, 0))

is_us_market_open(weekday, now_time) ==
    /\ ret' = Call("is_us_market_open", <<weekday, now_time>>, MarketOpenAt(weekday, now_time))
    /\ UNCHANGED <<variant, item_store, provider, gateway, passes, runtime, clockVars, candle_cache, is_preloaded,
                   preload_completed, inflight, since_reset>>

(***************************************************************************)
(* Historical data loader, one provider answer at a time                   *)
(***************************************************************************)
\* a symbol task suspended in its request for the page at since; requested counts
\* the requests it has made, up to MaxCounted; raw is the last page it received;
\* closed counts the calls of exchange.close(), close_failed tells whether one raised
FetchTask(since) ==
    [pc |-> "fetch", since |-> since, requested |-> 1, raw |-> <<>>, candles |-> <<>>,
     closed |-> 0, close_failed |-> FALSE]

\* asyncio.gather(*[_fetch_symbol(s) for s in self._symbols]) up to the first awaits
LaunchedTasks(startTs) == [j \in 1..Len(ConfiguredSymbols) |-> FetchTask(startTs)]

\* whether building some task's client raises: only the intraday loader builds one
CtorOutcomes(v) == IF v = "crypto" THEN BOOLEAN ELSE {FALSE}

\* if not raw or raw[-1][0] >= self._end_ts: break
PagingEndsAlways(raw, endTs) == TRUE
PagingEndsAtBeyond(raw, endTs) ==
    raw = <<>> \/ Last(raw)[1] >= endTs \/ \E i \in 1..Len(raw) : raw[i][1] > endTs
PagingEnds(raw, endTs) == raw = <<>> \/ Last(raw)[1] >= endTs

\* since=last_ts + 1
NextSinceSame(raw) == Last(raw)[1]
NextSince(raw) == Last(raw)[1] + 1

\* a task receives the answer to its request: an exception ends it with no
\* candles; a page is read up to its first row beyond endTs, and the intraday
\* task then either ends or requests the next page; the daily task asks once
TaskAfter(v, task, response, symbol, interval, endTs) ==
    IF response.err
    THEN [task EXCEPT !.pc = "failed", !.candles = <<>>]
    ELSE LET acc == task.candles
                       \o ToCandles(RowsUntilBeyond(response.rows, endTs), symbol, interval)
         IN  IF v = "stock" \/ PagingEnds(response.rows, endTs)
             THEN [task EXCEPT !.pc = "done", !.raw = response.rows, !.candles = acc]
             ELSE [task EXCEPT !.since = NextSince(response.rows),
                               !.requested = Min2(@ + 1, MaxCounted),
                               !.raw = response.rows, !.candles = acc]

\* results = await asyncio.gather(*tasks): no task is still waiting for a page
SomeEnded(tasks) == \E j \in 1..Len(tasks) : tasks[j].pc # "fetch"
AllEnded(tasks) == \A j \in 1..Len(tasks) : tasks[j].pc # "fetch"

\* preload_data is called: it returns at once when the flag is set; otherwise
\* the tasks of its first interval are launched, or a client cannot be built
\* and the call raises (the requests of the tasks it abandons are not followed);
\* overlaps records whether an earlier call was still in progress
preload_data_called(intervals, ctor_raises) ==
    /\ Len(passes) < MaxCalls
    /\ LET effective == EffectiveIntervals(variant, intervals)
           overlaps == \E q \in 1..Len(passes) : passes[q].status = "running"
       IN  passes' = Append(passes,
              IF is_preloaded
              THEN [status |-> "skipped", overlaps |-> overlaps, intervals |-> <<>>,
                    pending |-> <<>>, tasks |-> <<>>]
              ELSE IF ctor_raises
              THEN [status |-> "raised", overlaps |-> overlaps, intervals |-> effective,
                    pending |-> effective, tasks |-> <<>>]
              ELSE [status |-> "running", overlaps |-> overlaps, intervals |-> effective,
                    pending |-> effective, tasks |-> LaunchedTasks(start_ts)])
    /\ UNCHANGED <<variant, item_store, provider, gateway, runtime, clockVars, candle_cache, is_preloaded,
                   preload_completed, inflight, since_reset, ret>>

\* finally: try: await exchange.close() except Exception: pass
ClosedUnlessFailed(task, close_raises) ==
    IF task.pc = "failed" THEN task
    ELSE [task EXCEPT !.closed = @ + 1, !.close_failed = close_raises]
ClosedOrLost(task, close_raises) ==
    IF close_raises
    THEN [task EXCEPT !.closed = @ + 1, !.close_failed = TRUE, !.pc = "failed", !.candles = <<>>]
    ELSE [task EXCEPT !.closed = @ + 1]
Closed(task, close_raises) == [task EXCEPT !.closed = @ + 1, !.close_failed = close_raises]

\* the provider answers the outstanding request of task j of call p; a task of
\* the intraday loader that ends on the answer closes its client, which may raise
fetch_returns_closing(p, j, response, close_raises) ==
    /\ p \in 1..Len(passes)
    /\ passes[p].status = "running"
    /\ j \in 1..Len(passes[p].tasks)
    /\ passes[p].tasks[j].pc = "fetch"
    /\ LET after == TaskAfter(variant, passes[p].tasks[j], response, ConfiguredSymbols[j],
                              Head(passes[p].pending), end_ts)
           ended == IF after.pc # "fetch" /\ variant = "crypto"
                    THEN Closed(after, close_raises) ELSE after
       IN  /\ Len(after.candles) <= MaxTaskCandles
           /\ passes' = [passes EXCEPT ![p].tasks[j] = ended]
    /\ UNCHANGED <<variant, item_store, provider, gateway, runtime, clockVars, candle_cache, is_preloaded,
                   preload_completed, inflight, since_reset, ret>>

\* the same where the close succeeds
fetch_returns(p, j, response) == fetch_returns_closing(p, j, response, FALSE)

\* every task of call p has ended: gather returns, the sorted results are stored,
\* and preload_data goes on to its next interval or sets the flag and returns
gather_returns(p, ctor_raises) ==
    /\ p \in 1..Len(passes)
    /\ passes[p].status = "running"
    /\ AllEnded(passes[p].tasks)
    /\ candle_cache' = StoreResults(candle_cache, ConfiguredSymbols, passes[p].tasks,
                                    Head(passes[p].pending))
    /\ IF Tail(passes[p].pending) = <<>>
       THEN /\ is_preloaded' = TRUE
            /\ preload_completed' = TRUE
            /\ passes' = [passes EXCEPT ![p].status = "returned", ![p].pending = <<>>]
       ELSE /\ UNCHANGED <<is_preloaded, preload_completed>>
            /\ passes' = [passes EXCEPT
                             ![p].status = IF ctor_raises THEN "raised" ELSE "running",
                             ![p].pending = Tail(@),
                             ![p].tasks = IF ctor_raises THEN <<>> ELSE LaunchedTasks(start_ts)]
    /\ UNCHANGED <<variant, item_store, provider, gateway, runtime, clockVars, inflight, since_reset, ret>>

\* what the provider may answer to a request
Responses ==
    {ErrResponse, EmptyPage} \cup {[err |-> FALSE, rows |-> pg] : pg \in PagesOf(1) \cup PagesOf(2)}

(***************************************************************************)
(* Strategy runtime                                                        *)
(***************************************************************************)
\* the fields of a UserRequest that the runtime reads: exchange_config.trading_mode,
\* exchange_config.asset_class, trading_config.backtest_start_ts / backtest_end_ts
UserRequest(trading_mode, asset_class, backtest_start_ts, backtest_end_ts) ==
    [trading_mode |-> trading_mode, asset_class |-> asset_class,
     backtest_start_ts |-> backtest_start_ts, backtest_end_ts |-> backtest_end_ts]

TradingModes == {"backtest", "live", "virtual"}
AssetClasses == {"crypto", "stock"}
OptionalTs == {Nothing} \cup {Some(t) : t \in 0..MaxTs}
Requests ==
    {UserRequest(m, a, s, e) : m \in TradingModes, a \in AssetClasses, s \in OptionalTs, e \in OptionalTs}

\* what the wall clock may read when a cycle starts
WallClock == {1, 9}

\* no runtime yet, and no creation attempted
NoRuntime ==
    [status |-> "none", request |-> Nothing, backtest_data_source |-> FALSE, constructed |-> FALSE]

\* not x, for an optional timestamp: None and 0 are falsy
Falsy(x) == x = Nothing \/ x[1] = 0

\* the checks on the backtest range: the ValueError raised, or Nothing
BacktestRangePresentOnly(request) ==
    IF Falsy(request.backtest_start_ts) \/ Falsy(request.backtest_end_ts)
    THEN Some("Backtest mode requires backtest_start_ts and backtest_end_ts")
    ELSE Nothing
BacktestRangeError(request) ==
    IF Falsy(request.backtest_start_ts) \/ Falsy(request.backtest_end_ts)
    THEN Some("Backtest mode requires backtest_start_ts and backtest_end_ts")
    ELSE IF request.backtest_start_ts[1] >= request.backtest_end_ts[1]
         THEN Some("backtest_start_ts must be less than backtest_end_ts")
         ELSE Nothing

\* create_strategy_runtime up to its await of preload_data: the range checks, the
\* data source of the asset class, and the start of its preload of one interval
create_strategy_runtime(request) ==
    /\ runtime.status = "none"
    /\ inflight = Idle
    /\ IF request.trading_mode # "backtest"
       THEN /\ runtime' = [status |-> "created", request |-> Some(request),
                           backtest_data_source |-> FALSE, constructed |-> FALSE]
            /\ ret' = Call("create_strategy_runtime", <<request>>, [outcome |-> "returned"])
            /\ UNCHANGED <<variant, clockVars, candle_cache, is_preloaded, preload_completed,
                           inflight, since_reset>>
       ELSE IF BacktestRangeError(request) # Nothing
       THEN /\ runtime' = [status |-> "raised", request |-> Some(request),
                           backtest_data_source |-> FALSE, constructed |-> FALSE]
            /\ ret' = Call("create_strategy_runtime", <<request>>, [outcome |-> "ValueError"])
            /\ UNCHANGED <<variant, clockVars, candle_cache, is_preloaded, preload_completed,
                           inflight, since_reset>>
       ELSE LET is_stock == request.asset_class = "stock"
                source == IF is_stock THEN "stock" ELSE "crypto"
                intervals == IF is_stock THEN <<"1d">> ELSE <<"1m">>
            IN  /\ variant' = source
                /\ start_ts' = request.backtest_start_ts[1]
                /\ end_ts' = request.backtest_end_ts[1]
                /\ current_ts' = request.backtest_start_ts[1]
                /\ candle_cache' = [s \in {} |-> <<>>]
                /\ is_preloaded' = FALSE
                /\ preload_completed' = FALSE
                /\ since_reset' = 0
                /\ inflight' = [pending |-> EffectiveIntervals(source, intervals),
                                args |-> <<intervals>>, requests |-> 0]
                /\ runtime' = [status |-> "preloading", request |-> Some(request),
                               backtest_data_source |-> FALSE, constructed |-> TRUE]
                /\ ret' = Call("create_strategy_runtime", <<request>>, [outcome |-> "awaiting"])
    /\ UNCHANGED <<provider, gateway, passes, item_store>>

\* the rest of create_strategy_runtime once preload_data has ended: the runtime is
\* returned with the data source attached, or the loader's exception propagates
create_strategy_runtime_resumed ==
    /\ runtime.status = "preloading"
    /\ inflight = Idle
    /\ ret.op = "preload_data"
    /\ IF ret.val.outcome = "raised"
       THEN /\ runtime' = [runtime EXCEPT !.status = "raised"]
            /\ ret' = Call("create_strategy_runtime", <<runtime.request[1]>>, [outcome |-> "raised"])
       ELSE /\ runtime' = [runtime EXCEPT !.status = "created", !.backtest_data_source = TRUE]
            /\ ret' = Call("create_strategy_runtime", <<runtime.request[1]>>, [outcome |-> "returned"])
    /\ UNCHANGED <<variant, item_store, provider, gateway, passes, clockVars, candle_cache, is_preloaded,
                   preload_completed, inflight, since_reset>>

\* the dataclass built directly, around the data source at hand or around none
StrategyRuntime(request, attached) ==
    /\ runtime.status = "none"
    /\ inflight = Idle
    /\ runtime' = [status |-> "created", request |-> Some(request),
                   backtest_data_source |-> attached, constructed |-> FALSE]
    /\ ret' = Call("StrategyRuntime", <<request, attached>>, [outcome |-> "returned"])
    /\ UNCHANGED <<variant, item_store, provider, gateway, passes, clockVars, candle_cache, is_preloaded,
                   preload_completed, inflight, since_reset>>

\* get_current_timestamp_ms: the timestamp, and the wall clock reading if one was taken
get_current_timestamp_ms_attached(rt, wall) ==
    IF rt.backtest_data_source
    THEN [timestamp_ms |-> current_ts, wall_clock |-> Nothing]
    ELSE [timestamp_ms |-> wall, wall_clock |-> Some(wall)]
get_current_timestamp_ms(rt, wall) ==
    IF rt.backtest_data_source /\ rt.request[1].trading_mode = "backtest"
    THEN [timestamp_ms |-> current_ts, wall_clock |-> Nothing]
    ELSE [timestamp_ms |-> wall, wall_clock |-> Some(wall)]

\* run_cycle: the timestamp handed to coordinator.run_once
run_cycle(wall) ==
    /\ runtime.status = "created"
    /\ ret' = Call("run_cycle", <<>>, get_current_timestamp_ms(runtime, wall))
    /\ UNCHANGED <<variant, item_store, provider, gateway, passes, runtime, clockVars, candle_cache, is_preloaded,
                   preload_completed, inflight, since_reset>>

(***************************************************************************)
(* Conversation items: the two item stores and the manager's status update *)
(***************************************************************************)
\* items held by the in-memory store, over all conversations; the count stays there
MaxItems == 3

ItemIds == {"i1", "i2"}
ConversationIds == {"c1", "c2"}
ItemTaskIds == {"t1", "t2"}

\* item.payload: None ("none"), a string that is no JSON object ("text"), or the JSON
\* of a component with its component_type and its content's task_status
Payload(kind, component_type, task_status) ==
    [kind |-> kind, component_type |-> component_type, task_status |-> task_status]

Payloads ==
    {Payload("none", "", ""), Payload("text", "", "")}
        \cup {Payload("json", ct, "running") : ct \in {"scheduled_task_controller", "report"}}

\* the fields of a ConversationItem the stores and the manager look at; error_reason
\* is the entry of that name in item.metadata
ConversationItem(item_id, conversation_id, task_id, payload) ==
    [item_id |-> item_id, conversation_id |-> conversation_id, task_id |-> task_id,
     payload |-> payload, error_reason |-> Nothing]

NewItems ==
    {ConversationItem(i, c, t, p) : i \in ItemIds, c \in ConversationIds,
                                    t \in ItemTaskIds, p \in Payloads}

TaskStatuses == {"failed"}
ErrorReasons == {Nothing, Some(""), Some("timeout")}

\* both stores as constructed: memory is InMemoryItemStore._items, the conversations in
\* the order their first item came; postgres is the table conversation_items, the rows
\* in the order of created_at
NoItems == [memory |-> <<>>, postgres |-> <<>>]

\* InMemoryItemStore.save_item: the item is appended to its conversation's list
MemorySaveItem(items, item) ==
    IF \E k \in 1..Len(items) : items[k].conversation_id = item.conversation_id
    THEN [k \in 1..Len(items) |->
             IF items[k].conversation_id = item.conversation_id
             THEN [items[k] EXCEPT !.arr = Append(@, item)]
             ELSE items[k]]
    ELSE Append(items, [conversation_id |-> item.conversation_id, arr |-> <<item>>])

\* PostgresItemStore.save_item: INSERT ... ON CONFLICT (item_id) DO UPDATE SET every
\* other column
PostgresSaveItem(rows, item) ==
    IF \E k \in 1..Len(rows) : rows[k].item_id = item.item_id
    THEN [k \in 1..Len(rows) |-> IF rows[k].item_id = item.item_id THEN item ELSE rows[k]]
    ELSE Append(rows, item)

\* InMemoryItemStore.get_items without conversation_id, role, offset or limit: the lists
\* of all conversations, one after the other (task_id goes into **kwargs and is not used).
\* PostgresItemStore.get_items without any filter is the table itself, SELECT * ... ORDER
\* BY created_at ASC, task_id unused there too
RECURSIVE MemoryGetItems(_)
MemoryGetItems(items) ==
    IF items = <<>> THEN <<>> ELSE Head(items).arr \o MemoryGetItems(Tail(items))

\* get_item_count of either store
MemoryGetItemCount(items, conversation_id) ==
    IF \E k \in 1..Len(items) : items[k].conversation_id = conversation_id
    THEN Len(items[CHOOSE k \in 1..Len(items) : items[k].conversation_id = conversation_id].arr)
    ELSE 0

PostgresGetItemCount(rows, conversation_id) ==
    Cardinality({k \in 1..Len(rows) : rows[k].conversation_id = conversation_id})

\* the items update_task_component_status goes on with: a payload that is the JSON of
\* a scheduled_task_controller component
IsTaskController(item) ==
    item.payload.kind = "json" /\ item.payload.component_type = "scheduled_task_controller"

\* the edit: task_status in the payload's content, error_reason in the metadata if given
\* and not empty
Edited(item, status, error_reason) ==
    [item EXCEPT !.payload.task_status = status,
                 !.error_reason = IF error_reason = Nothing \/ error_reason[1] = ""
                                  THEN @ ELSE error_reason]

\* the in-memory store hands out the stored objects themselves: the edit of an item
\* shows in the store before the item is saved again
EditedInPlace(items, status, error_reason) ==
    [k \in 1..Len(items) |->
        [items[k] EXCEPT !.arr = [j \in 1..Len(@) |->
            IF IsTaskController(@[j]) THEN Edited(@[j], status, error_reason) ELSE @[j]]]]

\* the loop of update_task_component_status over the items found: each controller item
\* is edited and saved again
RECURSIVE SavedAgain(_, _, _, _, _)
SavedAgain(store, contents, items, status, error_reason) ==
    IF items = <<>>
    THEN contents
    ELSE LET item == Edited(Head(items), status, error_reason)
             saved == IF ~IsTaskController(Head(items)) THEN contents
                      ELSE IF store = "memory" THEN MemorySaveItem(contents, item)
                      ELSE PostgresSaveItem(contents, item)
         IN  SavedAgain(store, saved, Tail(items), status, error_reason)

UpdatedTaskComponentStatus(stores, status, error_reason) ==
    LET held == EditedInPlace(stores.memory, status, error_reason)
    IN  [memory |-> SavedAgain("memory", held, MemoryGetItems(held), status, error_reason),
         postgres |-> SavedAgain("postgres", stores.postgres, stores.postgres,
                                 status, error_reason)]

\* save_item, on a manager over either store: both stores are given the same item
save_item(item) ==
    /\ Len(MemoryGetItems(item_store.memory)) < MaxItems
    /\ item_store' = [memory |-> MemorySaveItem(item_store.memory, item),
                      postgres |-> PostgresSaveItem(item_store.postgres, item)]
    /\ ret' = Call("save_item", <<item>>, "None")
    /\ UNCHANGED <<variant, provider, gateway, passes, runtime, clockVars, candle_cache, is_preloaded,
                   preload_completed, inflight, since_reset>>

\* ConversationManager.update_task_component_status, on a manager over either store
update_task_component_status(task_id, status, error_reason) ==
    LET after == UpdatedTaskComponentStatus(item_store, status, error_reason)
    IN  /\ Len(MemoryGetItems(after.memory)) <= MaxItems
        /\ item_store' = after
        /\ ret' = Call("update_task_component_status", <<task_id, status, error_reason>>, "None")
        /\ UNCHANGED <<variant, provider, gateway, passes, runtime, clockVars, candle_cache,
                       is_preloaded, preload_completed, inflight, since_reset>>

\* get_item_count, asked of both stores
get_item_count(conversation_id) ==
    /\ ret' = Call("get_item_count", <<conversation_id>>,
                   [memory |-> MemoryGetItemCount(item_store.memory, conversation_id),
                    postgres |-> PostgresGetItemCount(item_store.postgres, conversation_id)])
    /\ UNCHANGED <<variant, item_store, provider, gateway, passes, runtime, clockVars, candle_cache,
                   is_preloaded, preload_completed, inflight, since_reset>>

(***************************************************************************)
(* Specifications                                                          *)
(***************************************************************************)
\* __init__ of either data source
Constructed ==
    /\ variant \in Variants
    /\ current_ts = start_ts
    /\ candle_cache = [s \in {} |-> <<>>]
    /\ is_preloaded = FALSE
    /\ preload_completed = FALSE
    /\ inflight = Idle
    /\ since_reset = 0
    /\ provider = <<>>
    /\ passes = <<>>
    /\ ret = Call("__init__", <<>>, "None")

Init ==
    /\ start_ts = 1
    /\ end_ts \in 1..MaxTs
    /\ Constructed
    /\ gateway = DefaultGateway
    /\ runtime = NoRuntime
    /\ item_store = NoItems

ClockNext ==
    \/ \E d \in Deltas : advance_time(d)
    \/ reset
    \/ is_finished
    \/ get_progress_pct
    \/ get_current_ts

Next ==
    \/ \E ivs \in IntervalLists : preload_data(ivs)
    \/ preload_interval
    \/ \E syms \in QuerySymbolLists, iv \in Intervals, lb \in Lookbacks :
          get_recent_candles(syms, iv, lb)
    \/ \E syms \in QuerySymbolLists : get_market_snapshot(syms)
    \/ ClockNext

\* the data source: loader, queries and clock
Spec == Init /\ [][Next]_vars

\* the clock alone, over a wider range of timestamps
InitClock ==
    /\ start_ts \in 0..2
    /\ end_ts \in 0..MaxEnd
    /\ Constructed
    /\ gateway = DefaultGateway
    /\ runtime = NoRuntime
    /\ item_store = NoItems

SpecClock == InitClock /\ [][ClockNext]_vars

\* the loader alone, with the provider's answers recorded
LoaderNext ==
    \/ \E ivs \in IntervalLists : preload_data(ivs)
    \/ preload_interval_observed
    \/ reset

SpecLoader == Init /\ [][LoaderNext]_vars

\* the loader alone, where a pass may be asked for the same interval twice
PassIntervalLists == IntervalLists \cup {<<"1m", "1m">>}

PassesNext ==
    \/ \E ivs \in PassIntervalLists : preload_data(ivs)
    \/ preload_interval
    \/ reset

SpecPasses == Init /\ [][PassesNext]_vars

\* the strategy runtime: its creation, the preload it awaits, the clock and the cycles
DirectRequests == {UserRequest(m, "crypto", Nothing, Nothing) : m \in TradingModes}

RuntimeNext ==
    \/ \E request \in Requests : create_strategy_runtime(request)
    \/ preload_interval
    \/ create_strategy_runtime_resumed
    \/ \E request \in DirectRequests, attached \in BOOLEAN : StrategyRuntime(request, attached)
    \/ \E wall \in WallClock : run_cycle(wall)
    \/ \E d \in Deltas : runtime.status = "created" /\ advance_time(d)

SpecRuntime == Init /\ [][RuntimeNext]_vars

\* the intraday loader, one provider answer at a time: one call, any answers
InitPaging ==
    /\ Init
    /\ variant = "crypto"

PagingNext ==
    \/ \E c \in CtorOutcomes(variant) : passes = <<>> /\ preload_data_called(<<"1m">>, c)
    \/ \E p \in 1..MaxCalls, j \in 1..Len(ConfiguredSymbols), r \in Responses :
          fetch_returns(p, j, r)
    \/ \E p \in 1..MaxCalls, c \in CtorOutcomes(variant) : gather_returns(p, c)

SpecPaging == InitPaging /\ [][PagingNext]_vars

\* the intraday loader against a provider that answers every request with a
\* page that is not empty and whose last timestamp precedes end_ts
StallingResponses(endTs) ==
    {r \in Responses : ~r.err /\ r.rows # <<>> /\ Last(r.rows)[1] < endTs}

StalledNext ==
    \/ passes = <<>> /\ preload_data_called(<<"1m">>, FALSE)
    \/ \E p \in 1..MaxCalls, j \in 1..Len(ConfiguredSymbols), r \in StallingResponses(end_ts) :
          fetch_returns(p, j, r)

SpecStalled == InitPaging /\ [][StalledNext]_vars

\* the intraday loader against a provider that honours the cursor: every page
\* ascends and starts at or after the since it was asked for, and every request
\* is answered; a call is made when no other is running
Ascending(raw) == \A i \in 1..(Len(raw) - 1) : raw[i][1] <= raw[i + 1][1]
HonestResponses(since) ==
    {r \in Responses : ~r.err /\ Ascending(r.rows) /\ \A i \in 1..Len(r.rows) : r.rows[i][1] >= since}

HonestFetch ==
    \E p \in 1..Len(passes) : \E j \in 1..Len(passes[p].tasks) :
        \E r \in HonestResponses(passes[p].tasks[j].since) : fetch_returns(p, j, r)
HonestGather(ctors) == \E p \in 1..Len(passes), c \in ctors : gather_returns(p, c)
HonestCall(ctors) ==
    /\ \A p \in 1..Len(passes) : passes[p].status # "running"
    /\ \E c \in ctors : preload_data_called(<<"1m">>, c)

HonestNext == HonestCall(CtorOutcomes(variant)) \/ HonestFetch \/ HonestGather(CtorOutcomes(variant))

\* the event loop delivers every answer and resumes the call once its tasks have ended
SpecHonest ==
    /\ InitPaging /\ [][HonestNext]_vars
    /\ WF_vars(HonestFetch) /\ WF_vars(HonestGather(CtorOutcomes(variant)))

\* the same where every client can be built
HonestBuiltNext == HonestCall({FALSE}) \/ HonestFetch \/ HonestGather({FALSE})

SpecHonestBuilt ==
    /\ InitPaging /\ [][HonestBuiltNext]_vars
    /\ WF_vars(HonestFetch) /\ WF_vars(HonestGather({FALSE}))

\* either loader, one answer at a time: a call for two intervals, and a second
\* call that may be made while the first is in progress; the provider answers
\* with an exception, an empty page or a page of one row
OverlapResponses == {ErrResponse, EmptyPage, [err |-> FALSE, rows |-> <<<<0, PriceAt(0)>>>>]}

InitOverlap ==
    /\ Init
    /\ end_ts = 1

OverlapNext ==
    \/ \E c \in CtorOutcomes(variant) : passes = <<>> /\ preload_data_called(<<"1m", "1d">>, c)
    \/ \E c \in CtorOutcomes(variant) : passes # <<>> /\ preload_data_called(<<>>, c)
    \/ \E p \in 1..MaxCalls, j \in 1..Len(ConfiguredSymbols), r \in OverlapResponses :
          fetch_returns(p, j, r)
    \/ \E p \in 1..MaxCalls, c \in CtorOutcomes(variant) : gather_returns(p, c)

SpecOverlap == InitOverlap /\ [][OverlapNext]_vars

\* the intraday loader, one answer at a time, where closing a client may raise
CleanupNext ==
    \/ \E c \in CtorOutcomes(variant) : passes = <<>> /\ preload_data_called(<<"1m">>, c)
    \/ \E p \in 1..MaxCalls, j \in 1..Len(ConfiguredSymbols), r \in Responses, x \in BOOLEAN :
          fetch_returns_closing(p, j, r, x)
    \/ \E p \in 1..MaxCalls, c \in CtorOutcomes(variant) : gather_returns(p, c)

SpecCleanup == InitPaging /\ [][CleanupNext]_vars

\* the replay loop: the clock of a proper range is advanced by positive deltas
\* again and again, asked whether it has finished, and reset once it has
InitReplay ==
    /\ InitClock
    /\ start_ts < end_ts

PositiveAdvance == \E d \in 1..MaxAdvance : advance_time(d)

ReplayNext ==
    \/ PositiveAdvance
    \/ is_finished
    \/ IsFinished(current_ts, end_ts) /\ reset

SpecReplay == InitReplay /\ [][ReplayNext]_vars /\ WF_vars(PositiveAdvance)

\* the market-hours predicate asked at any of the local instants
MarketNext == \E weekday \in Weekdays, now_time \in LocalTimes : is_us_market_open(weekday, now_time)

SpecMarket == Init /\ [][MarketNext]_vars

\* the item stores alone: items saved, statuses updated, counts asked
InitItems ==
    /\ Init
    /\ variant = "crypto"
    /\ end_ts = 1

ItemsNext ==
    \/ \E item \in NewItems : save_item(item)
    \/ \E task_id \in ItemTaskIds, status \in TaskStatuses, error_reason \in ErrorReasons :
          update_task_component_status(task_id, status, error_reason)
    \/ \E conversation_id \in ConversationIds : get_item_count(conversation_id)

SpecItems == InitItems /\ [][ItemsNext]_vars

\* the execution simulator alone, beside a data source left as constructed
InitExec ==
    /\ start_ts = 1
    /\ end_ts = 1
    /\ Constructed
    /\ variant = "stock"
    /\ gateway \in Gateways
    /\ runtime = NoRuntime
    /\ item_store = NoItems

ExecNext ==
    \E instructions \in InstructionLists, price_map \in PriceMaps :
        \E markets \in [1..Len(instructions) -> MarketStates] :
            execute(instructions, markets, price_map)

SpecExec == InitExec /\ [][ExecNext]_vars

(***************************************************************************)
(* Properties of the queries                                               *)
(***************************************************************************)
QueriedSymbols == ret.args[1]
QueriedInterval == ret.args[2]
QueriedLookback == ret.args[3]

\* C1: no lookahead - every candle a get_recent_candles call returns has
\* ts <= current_ts as of the call, in both data sources.
C1_NoLookahead ==
    ret.op = "get_recent_candles" =>
        \A i \in 1..Len(ret.val) : ret.val[i].ts <= current_ts

\* a call that returned candles of a series which also holds a later candle
C1_Witness ==
    /\ ret.op = "get_recent_candles"
    /\ ret.val # <<>>
    /\ \E i \in 1..Len(QueriedSymbols) :
          \E c \in Range(CacheGet(candle_cache, QueriedSymbols[i], QueriedInterval)) :
              c.ts > current_ts

\* the positions of a cached series that are visible at current_ts
VisibleIn(series) == {i \in 1..Len(series) : series[i].ts <= current_ts}

\* C2: get_market_snapshot returns, for each requested symbol, the record of the
\* cached primary-interval candle with the greatest ts among those with
\* ts <= current_ts (timestamp = that ts, last = close = its close); a requested
\* symbol is a key of the result iff such a candle exists, and no record carries
\* a timestamp > current_ts.
C2_SnapshotLatest ==
    ret.op = "get_market_snapshot" =>
        /\ DOMAIN ret.val \subseteq Range(QueriedSymbols)
        /\ \A s \in Range(QueriedSymbols) :
              LET series == CacheGet(candle_cache, s, IF variant = "crypto" THEN "1m" ELSE "1d")
                  visible == VisibleIn(series)
              IN  /\ (s \in DOMAIN ret.val) <=> (visible # {})
                  /\ (s \in DOMAIN ret.val) =>
                        /\ ret.val[s].timestamp <= current_ts
                        /\ \E i \in visible :
                              /\ \A j \in visible : series[j].ts <= series[i].ts
                              /\ ret.val[s].timestamp = series[i].ts
                              /\ ret.val[s].last = series[i].close
                              /\ ret.val[s].close = series[i].close

\* a snapshot holding a symbol with two visible candles of different ts, asked
\* also for a symbol it leaves out
C2_Witness ==
    /\ ret.op = "get_market_snapshot"
    /\ Range(QueriedSymbols) \ (DOMAIN ret.val) # {}
    /\ \E s \in DOMAIN ret.val :
          LET series == CacheGet(candle_cache, s, PrimaryInterval(variant))
          IN  \E i, j \in VisibleIn(series) : series[i].ts < series[j].ts

\* the block one symbol contributes according to the contract: the last
\* min(lookback, k) of its k visible candles, ascending
ExpectedBlock(symbol, interval, lookback) ==
    LET series == CacheGet(candle_cache, symbol, interval)
        visible == SelectSeq(series, LAMBDA c : c.ts <= current_ts)
        k == Len(visible)
        m == Min2(lookback, k)
    IN  SubSeq(visible, k - m + 1, k)

RECURSIVE ExpectedBlocks(_, _, _)
ExpectedBlocks(symbols, interval, lookback) ==
    IF symbols = <<>> THEN <<>>
    ELSE ExpectedBlock(symbols[1], interval, lookback)
         \o ExpectedBlocks(Tail(symbols), interval, lookback)

\* C3: for every non-negative lookback, get_recent_candles returns the
\* concatenation, in the order the symbols were requested, of each symbol's last
\* min(lookback, k) candles with ts <= current_ts, ascending; a symbol with
\* k = 0 contributes nothing.  (Refuted by the code at lookback = 0.)
C3_RecentBlocks ==
    ret.op = "get_recent_candles" =>
        ret.val = ExpectedBlocks(QueriedSymbols, QueriedInterval, QueriedLookback)

(***************************************************************************)
(* Properties of the simulated clock                                       *)
(***************************************************************************)
\* C4: start_ts <= current_ts in every state reachable by advance_time, with any
\* integer delta, and reset.  (Refuted by the code for a negative delta.)
C4_ClockNotBeforeStart == start_ts <= current_ts

\* C5: no operation other than reset lowers current_ts.  (Refuted by the code
\* for advance_time with a negative delta.)
C5_ClockMonotonic == [][ret'.op # "reset" => current_ts' >= current_ts]_vars

\* C6: current_ts is start_ts at construction, advance_time(d) adds d to it
\* without a clamp at end_ts, reset sets it to start_ts: current_ts is always
\* start_ts plus the deltas advanced since construction or the last reset, and
\* get_current_ts returns it.  With start 0 and end 10 (the scenario, in
\* thousands): at 3 progress is 30% and the replay is not finished, at 11 it is.
C6_ClockTransitions ==
    /\ current_ts = start_ts + since_reset
    /\ ret.op \in {"__init__", "reset"} => current_ts = start_ts
    /\ ret.op = "get_current_ts" => ret.val = start_ts + since_reset
    /\ (start_ts = 0 /\ end_ts = 10 /\ since_reset = 3) =>
          /\ RatEq(ProgressPct(current_ts, start_ts, end_ts), <<30, 1>>)
          /\ ~IsFinished(current_ts, end_ts)
    /\ (start_ts = 0 /\ end_ts = 10 /\ since_reset = 11) =>
          IsFinished(current_ts, end_ts)

\* the scenario's last state: start 0, end 10, advanced by 3 and then by 8
C6_Witness ==
    /\ start_ts = 0 /\ end_ts = 10
    /\ ret = Call("advance_time", <<8>>, "None")
    /\ since_reset = 11
    /\ current_ts = 11

\* C7: is_finished() is true iff current_ts >= end_ts.
C7_FinishedIffAtEnd ==
    ret.op = "is_finished" => (ret.val <=> (current_ts >= end_ts))

\* is_finished() answering true after advances brought the clock to exactly end_ts
C7_Witness ==
    /\ ret.op = "is_finished" /\ ret.val = TRUE
    /\ current_ts = end_ts /\ since_reset > 0

\* clamp(100 * (current_ts - start_ts) / (end_ts - start_ts), 0, 100), and 100
\* for a degenerate range
ClampedProgress ==
    IF end_ts <= start_ts THEN Hundred
    ELSE LET raw == <<100 * (current_ts - start_ts), end_ts - start_ts>>
         IN  IF RatLeq(raw, Zero) THEN Zero
             ELSE IF RatLeq(Hundred, raw) THEN Hundred ELSE raw

\* C8: get_progress_pct() equals the clamped ratio, 100 when end_ts <= start_ts,
\* and so lies in [0, 100] after any advance_time and reset calls.  (Refuted by
\* the code below start_ts: there is no lower clamp.)
C8_ProgressClamped ==
    ret.op = "get_progress_pct" =>
        /\ RatEq(ret.val, ClampedProgress)
        /\ RatLeq(Zero, ret.val) /\ RatLeq(ret.val, Hundred)

Progress == ProgressPct(current_ts, start_ts, end_ts)

\* C9: under advance_time calls with positive deltas the progress never
\* decreases, and once it is 100 it stays 100.
C9_ProgressMonotonic ==
    [][(ret'.op = "advance_time" /\ ret'.args[1] > 0) =>
          /\ RatLeq(Progress, Progress')
          /\ RatEq(Progress, Hundred) => RatEq(Progress', Hundred)]_vars

\* a positive advance made at 100% of a proper range
C9_Witness ==
    /\ ret.op = "advance_time" /\ ret.args[1] > 0
    /\ start_ts < end_ts
    /\ current_ts - ret.args[1] >= end_ts
    /\ RatEq(Progress, Hundred)

(***************************************************************************)
(* Properties of the loader                                                *)
(***************************************************************************)
\* C10: once one preload_data call has completed, a later preload_data call
\* issues no provider request (no pass starts), leaves the candle cache, the
\* loaded flag and the clock unchanged, and returns without error.
C10_PreloadIdempotent ==
    [][preload_completed =>
          /\ inflight' = Idle
          /\ candle_cache' = candle_cache
          /\ is_preloaded' = is_preloaded
          /\ ret'.op = "preload_data" =>
                /\ ret'.val = [outcome |-> "skipped", requests |-> 0]
                /\ current_ts' = current_ts]_vars

\* the intraday source, loaded with "1m" data, skipping a later call for "1d"
C10_Witness ==
    /\ variant = "crypto" /\ preload_completed
    /\ ret = Call("preload_data", << <<"1d">> >>, [outcome |-> "skipped", requests |-> 0])
    /\ "A" \in DOMAIN candle_cache
    /\ DOMAIN candle_cache["A"] = {"1m"}
    /\ candle_cache["A"]["1m"] # <<>>

\* a preload_data call has just raised or returned after loading, and provider
\* holds what its last _preload_interval was answered
PassEnded ==
    /\ inflight = Idle
    /\ provider # <<>>
    /\ ret.op = "preload_data"
    /\ ret.val.outcome # "skipped"

\* the interval of that last _preload_interval
PassInterval == Last(EffectiveIntervals(variant, ret.args[1]))

SymbolIndexes == 1..Len(ConfiguredSymbols)

\* a page request of the task fails: its requests reach an exception of the script
RECURSIVE PageFailsFrom(_, _)
PageFailsFrom(script, i) ==
    IF i > Len(script) THEN FALSE
    ELSE IF script[i].err THEN TRUE
    ELSE IF script[i].rows = <<>> THEN FALSE
    ELSE IF Last(script[i].rows)[1] >= end_ts THEN FALSE
    ELSE PageFailsFrom(script, i + 1)

PageFails(beh) == ~beh.ctor_raises /\ PageFailsFrom(beh.script, 1)

\* the same task had its failing request been answered with an empty page
HadNotFailed(beh) ==
    [beh EXCEPT !.script = [i \in DOMAIN @ |-> IF @[i].err THEN EmptyPage ELSE @[i]]]

\* the series a task would have stored had no request of it failed
SeriesHadNotFailed(j) ==
    SortedByTs(fetch_symbol(variant, HadNotFailed(provider[j]), ConfiguredSymbols[j],
                            PassInterval, start_ts, end_ts).candles)

HasEntry(cache, symbol, interval) ==
    symbol \in DOMAIN cache /\ interval \in DOMAIN cache[symbol]

\* what partial-failure tolerance promises of the pass that has just ended
ToleratedFailures ==
    /\ ret.val.outcome = "returned"
    /\ is_preloaded
    /\ \A j \in SymbolIndexes :
          /\ HasEntry(candle_cache, ConfiguredSymbols[j], PassInterval)
          /\ candle_cache[ConfiguredSymbols[j]][PassInterval] =
                IF PageFails(provider[j]) THEN <<>> ELSE SeriesHadNotFailed(j)

\* C11: partial-failure tolerance - if a page request fails for a symbol (on the
\* first or a later page) during the preload of an interval, then afterwards that
\* symbol's series for the interval is empty, rows of its earlier pages
\* discarded, every other symbol's series is what it would have been without
\* the failure, and preload_data completes normally and marks the source loaded.
\* (Refuted by the intraday loader when another symbol's client cannot be built.)
C11_PartialFailureTolerated ==
    (PassEnded /\ \E j \in SymbolIndexes : PageFails(provider[j])) => ToleratedFailures

\* the same promise where every client was built: it holds
PageFailuresAloneTolerated ==
    (/\ PassEnded
     /\ \E j \in SymbolIndexes : PageFails(provider[j])
     /\ \A j \in SymbolIndexes : ~provider[j].ctor_raises) => ToleratedFailures

\* a pass in which "A" failed on its second page after a first page of rows,
\* while "B" stored a candle
PageFailureSeen ==
    /\ PassEnded /\ variant = "crypto" /\ ret.val.outcome = "returned"
    /\ Len(provider[1].script) = 2 /\ PageFails(provider[1])
    /\ CacheGet(candle_cache, "A", PassInterval) = <<>>
    /\ CacheGet(candle_cache, "B", PassInterval) # <<>>

\* C12: no provider-side exception propagates out of preload_data - whatever
\* goes wrong while serving one symbol (building its client included) becomes an
\* empty result for that symbol.  (Refuted by the intraday loader, which builds
\* the client outside its try block.)
C12_NoExceptionPropagates ==
    ret.op = "preload_data" => ret.val.outcome # "raised"

\* C13: sortedness - in every reachable state every cached (symbol, interval)
\* series is ascending by ts (adjacent candles: earlier ts <= later ts), whatever
\* order and duplicates the provider delivered the rows in.
C13_SeriesSorted ==
    \A s \in DOMAIN candle_cache : \A iv \in DOMAIN candle_cache[s] :
        LET series == candle_cache[s][iv]
        IN  \A i \in 1..(Len(series) - 1) : series[i].ts <= series[i + 1].ts

\* a stored series of two candles whose rows the provider delivered in
\* descending order on one page
C13_Witness ==
    /\ PassEnded /\ ret.val.outcome = "returned"
    /\ \E j \in SymbolIndexes :
          /\ Len(provider[j].script) >= 1
          /\ Len(provider[j].script[1].rows) = 2
          /\ provider[j].script[1].rows[1][1] > provider[j].script[1].rows[2][1]
          /\ Len(CacheGet(candle_cache, ConfiguredSymbols[j], PassInterval)) = 2

\* C14: no candle with ts > end_ts is ever stored in the candle cache, whatever
\* the provider answers (unsorted pages, pages reaching past end_ts), in both
\* loaders.
C14_NothingBeyondEnd ==
    \A s \in DOMAIN candle_cache : \A iv \in DOMAIN candle_cache[s] :
        \A i \in 1..Len(candle_cache[s][iv]) : candle_cache[s][iv][i].ts <= end_ts

\* a task was delivered a row beyond end_ts after a row within the range, and
\* stored a candle
C14_Witness ==
    /\ PassEnded /\ ret.val.outcome = "returned"
    /\ \E j \in SymbolIndexes :
          /\ Len(provider[j].script) >= 1
          /\ Len(provider[j].script[1].rows) = 2
          /\ provider[j].script[1].rows[1][1] <= end_ts
          /\ provider[j].script[1].rows[2][1] > end_ts
          /\ CacheGet(candle_cache, ConfiguredSymbols[j], PassInterval) # <<>>

\* the step is a _preload_interval that raised
RaisedStep ==
    /\ inflight.pending # <<>>
    /\ inflight' = Idle
    /\ ret'.op = "preload_data"
    /\ ret'.val.outcome = "raised"

\* the step is a _preload_interval that stored the series of its interval
StoredStep == inflight.pending # <<>> /\ inflight' # inflight /\ ~RaisedStep

\* C15: the candle cache is written exactly once per (symbol, interval) and is
\* read-only afterwards - only a storing preload step changes the cache, the
\* entries it assigns were not assigned before, and no query or clock call adds,
\* removes or changes an entry.  (Refuted by the code: a pass over an interval
\* list that names an interval twice assigns its entries twice.)
C15_CacheWrittenOnce ==
    [][/\ candle_cache' # candle_cache => StoredStep
       /\ StoredStep =>
             \A j \in SymbolIndexes :
                 ~HasEntry(candle_cache, ConfiguredSymbols[j], Head(inflight.pending))]_vars

\* the read-only part alone: every step that is not a storing preload step
\* leaves the cache as it is, and it holds
CacheReadOnlyOutsidePreload == [][~StoredStep => candle_cache' = candle_cache]_vars

(***************************************************************************)
(* Properties of the execution simulator                                   *)
(***************************************************************************)
\* the last execute call: its inputs and what it returned
Executed == ret.op = "execute"
ExecInstructions == ret.args[1]
ExecMarkets == ret.args[2]
ExecPriceMap == ret.args[3]
ExecResults == ret.val.results

\* C16: execute returns exactly one TxResult per instruction, in input order
\* (the i-th result carries the i-th instruction's instruction_id and
\* instrument), whatever mix of fills and rejections; an empty list of
\* instructions yields an empty list of results.
C16_OneResultPerInstruction ==
    Executed =>
        /\ Len(ExecResults) = Len(ExecInstructions)
        /\ \A i \in 1..Len(ExecInstructions) :
              /\ ExecResults[i].instruction_id = ExecInstructions[i].instruction_id
              /\ ExecResults[i].instrument = ExecInstructions[i].instrument
        /\ ExecInstructions = <<>> => ExecResults = <<>>

\* two different instructions, the first rejected and the second filled
C16_Witness ==
    /\ Executed /\ Len(ExecInstructions) = 2
    /\ ExecInstructions[1].instruction_id # ExecInstructions[2].instruction_id
    /\ Len(ExecResults) = 2
    /\ ExecResults[1].status = "REJECTED" /\ ExecResults[2].status = "FILLED"

\* the instructions that met a closed market under enforcement
ClosedFor(i) == gateway.enforce_market_hours /\ ~ExecMarkets[i].open

\* the instruments of the instructions from position i on that did not
RECURSIVE OpenInstrumentsFrom(_)
OpenInstrumentsFrom(i) ==
    IF i > Len(ExecInstructions) THEN <<>>
    ELSE (IF ClosedFor(i) THEN <<>> ELSE <<ExecInstructions[i].instrument>>)
         \o OpenInstrumentsFrom(i + 1)

\* C17: an instruction is rejected with status REJECTED, reason "market_closed"
\* and filled_qty 0 iff market hours are enforced and the market is closed when
\* it is processed; the check precedes price resolution, so the rejection does
\* not depend on prices and no price is looked up for that instruction.
C17_MarketClosedRejection ==
    Executed =>
        /\ \A i \in 1..Len(ExecResults) :
              /\ (ExecResults[i].reason = "market_closed") <=> ClosedFor(i)
              /\ ClosedFor(i) =>
                    /\ ExecResults[i].status = "REJECTED"
                    /\ ExecResults[i].filled_qty = 0
        /\ ret.val.lookups = OpenInstrumentsFrom(1)

\* an instruction rejected for a closed market although the price service had
\* a positive price for it, followed by one that met an open market
C17_Witness ==
    /\ Executed /\ Len(ExecResults) = 2
    /\ ClosedFor(1) /\ ~ClosedFor(2)
    /\ ExecMarkets[1].answer = [kind |-> "price", value |-> 5]
    /\ ExecResults[1].reason = "market_closed"
    /\ ret.val.lookups = <<ExecInstructions[2].instrument>>

\* the reference price the contract names for instruction i: the primary
\* lookup's when positive, else the price map's when positive, else none (0)
ContractPrice(i) ==
    LET answer == ExecMarkets[i].answer
        symbol == ExecInstructions[i].instrument
    IN  IF answer.kind = "price" /\ answer.value > 0 THEN answer.value
        ELSE IF symbol \in DOMAIN ExecPriceMap /\ ExecPriceMap[symbol] > 0
        THEN ExecPriceMap[symbol]
        ELSE 0

\* the slippage a filled result reports
ReportedSlip(result) == IF result.slippage_bps = Nothing THEN 0 ELSE result.slippage_bps[1]

\* price is ref * (1 + s/10000) for a BUY and ref * (1 - s/10000) for a SELL
SlippedFrom(price, side, ref, s) ==
    IF side = "BUY" THEN price[1] * 10000 = ref * (10000 + s) * price[2]
    ELSE price[1] * 10000 = ref * (10000 - s) * price[2]

\* C18: for an instruction that passed the market-hours check the primary
\* lookup's price is used when positive; when the lookup raises, returns
\* nothing or a non-positive price, the price map's price for the symbol is
\* used; when that is missing or non-positive too, the result is REJECTED with
\* reason "no_price_data" and filled_qty 0, returned as a value while execute
\* goes on with the remaining instructions.
C18_PriceResolution ==
    Executed =>
        /\ Len(ExecResults) = Len(ExecInstructions)
        /\ \A i \in 1..Len(ExecResults) :
              ~ClosedFor(i) =>
                  IF ContractPrice(i) = 0
                  THEN /\ ExecResults[i].status = "REJECTED"
                       /\ ExecResults[i].reason = "no_price_data"
                       /\ ExecResults[i].filled_qty = 0
                  ELSE /\ ExecResults[i].status = "FILLED"
                       /\ ExecResults[i].avg_exec_price # Nothing
                       /\ SlippedFrom(ExecResults[i].avg_exec_price[1], ExecResults[i].side,
                                      ContractPrice(i), ReportedSlip(ExecResults[i]))

\* a first instruction rejected for want of a price (the lookup raised, the
\* price map has a non-positive price), a second filled at the price map's
\* price after the lookup returned a non-positive one
C18_Witness ==
    /\ Executed /\ Len(ExecResults) = 2
    /\ ~ClosedFor(1) /\ ~ClosedFor(2)
    /\ ExecMarkets[1].answer.kind = "raises"
    /\ ExecInstructions[1].instrument \in DOMAIN ExecPriceMap
    /\ ExecResults[1].reason = "no_price_data"
    /\ ExecMarkets[2].answer = [kind |-> "price", value |-> 0]
    /\ ExecResults[2].status = "FILLED"
    /\ ContractPrice(2) = ExecPriceMap[ExecInstructions[2].instrument]

\* the slippage the contract names: the instruction's override when it carries
\* one, the configured default otherwise
ContractSlip(i) ==
    IF ExecInstructions[i].max_slippage_bps # Nothing
    THEN ExecInstructions[i].max_slippage_bps[1]
    ELSE gateway.slippage_bps

\* C19: the effective slippage of a filled instruction is its max-slippage
\* override whenever it carries one, for every override value including 0, and
\* the configured default only when it carries none.  (Refuted by the code for
\* an override of 0.)
C19_SlippageOverride ==
    Executed =>
        \A i \in 1..Len(ExecResults) :
            ExecResults[i].status = "FILLED" =>
                /\ ReportedSlip(ExecResults[i]) = ContractSlip(i)
                /\ SlippedFrom(ExecResults[i].avg_exec_price[1], ExecResults[i].side,
                               ContractPrice(i), ContractSlip(i))

\* C20: a filled instruction with reference price P and effective slippage s bps
\* reports the price P * (1 + s/10000) when its side is BUY and
\* P * (1 - s/10000) when it is SELL, so a BUY never fills below P and a SELL
\* never above P.
C20_SlippedPrice ==
    Executed =>
        \A i \in 1..Len(ExecResults) :
            ExecResults[i].status = "FILLED" =>
                LET price == ExecResults[i].avg_exec_price[1]
                    P == ContractPrice(i)
                    s == SlipBps(gateway, ExecInstructions[i])
                IN  /\ SlippedFrom(price, ExecResults[i].side, P, s)
                    /\ ExecResults[i].side = "BUY" => P * price[2] <= price[1]
                    /\ ExecResults[i].side = "SELL" => price[1] <= P * price[2]

\* a SELL filled strictly below its reference price and a BUY filled strictly
\* above its own, in one call
C20_Witness ==
    /\ Executed /\ Len(ExecResults) = 2
    /\ ExecResults[1].status = "FILLED" /\ ExecResults[1].side = "SELL"
    /\ ExecResults[1].avg_exec_price[1][1] < ContractPrice(1) * ExecResults[1].avg_exec_price[1][2]
    /\ ExecResults[2].status = "FILLED" /\ ExecResults[2].side = "BUY"
    /\ ExecResults[2].avg_exec_price[1][1] > ContractPrice(2) * ExecResults[2].avg_exec_price[1][2]

\* the fee the contract names for the filled result i: E * q * (f / 10000) + q * u
\* on the reported exec price E
ContractFee(i) ==
    LET E == ExecResults[i].avg_exec_price[1]
        q == ExecInstructions[i].quantity
    IN  Rat(E[1] * q * gateway.fee_bps + q * gateway.fee_per_share * E[2] * 10000,
            E[2] * 10000)

\* C21: the fee cost a filled result reports equals E * q * (f / 10000) + q * u,
\* computed on the slippage-adjusted exec price E, for all parameter values,
\* f = 0 and u = 0 included.  (Refuted by the code where the fee is 0: the
\* result then reports no fee cost at all.)
C21_FeeReported ==
    Executed =>
        \A i \in 1..Len(ExecResults) :
            ExecResults[i].status = "FILLED" =>
                ExecResults[i].fee_cost = Some(ContractFee(i))

\* the same where the fee is positive: it holds
PositiveFeeReported ==
    Executed =>
        \A i \in 1..Len(ExecResults) :
            (ExecResults[i].status = "FILLED" /\ ContractFee(i)[1] > 0) =>
                ExecResults[i].fee_cost = Some(ContractFee(i))

\* a fill of two shares at a slipped price, charged both kinds of fee
PositiveFeeSeen ==
    /\ Executed /\ Len(ExecResults) = 1
    /\ ExecResults[1].status = "FILLED" /\ ExecResults[1].filled_qty = 2
    /\ ExecResults[1].slippage_bps # Nothing
    /\ gateway.fee_bps > 0 /\ gateway.fee_per_share > 0
    /\ ExecResults[1].fee_cost # Nothing

\* C22: every TxResult has status FILLED or REJECTED; a FILLED result has
\* filled_qty = requested_qty = the instruction's quantity and carries an exec
\* price; a REJECTED result has filled_qty 0, no exec price and a reason in
\* {"market_closed", "no_price_data"}.
C22_ResultInvariant ==
    Executed =>
        \A i \in 1..Len(ExecResults) :
            LET result == ExecResults[i]
            IN  /\ result.status \in {"FILLED", "REJECTED"}
                /\ result.status = "FILLED" =>
                      /\ result.filled_qty = result.requested_qty
                      /\ result.requested_qty = ExecInstructions[i].quantity
                      /\ result.avg_exec_price # Nothing
                /\ result.status = "REJECTED" =>
                      /\ result.filled_qty = 0
                      /\ result.avg_exec_price = Nothing
                      /\ result.reason \in {"market_closed", "no_price_data"}

\* a call that rejected two shares for a closed market and filled two shares
C22_Witness ==
    /\ Executed /\ Len(ExecResults) = 2
    /\ ExecResults[1].status = "REJECTED" /\ ExecResults[1].reason = "market_closed"
    /\ ExecResults[1].requested_qty = 2
    /\ ExecResults[2].status = "FILLED" /\ ExecResults[2].filled_qty = 2

\* C23: the timestamp run_cycle hands to the decision pipeline is the data
\* source's current_ts at the start of the cycle when the trading mode is
\* BACKTEST and a data source is attached, and no wall clock is read then; in
\* every other case it is the wall clock reading; run_cycle leaves current_ts
\* as it was.
C23_CycleTimestamp ==
    [][ret'.op = "run_cycle" =>
          /\ current_ts' = current_ts
          /\ IF runtime.request[1].trading_mode = "backtest" /\ runtime.backtest_data_source
             THEN /\ ret'.val.timestamp_ms = current_ts
                  /\ ret'.val.wall_clock = Nothing
             ELSE /\ ret'.val.wall_clock # Nothing
                  /\ ret'.val.timestamp_ms = ret'.val.wall_clock[1]]_vars

\* a cycle of a created backtest runtime whose clock has been advanced past its start
C23_Witness ==
    /\ ret.op = "run_cycle"
    /\ runtime.constructed /\ runtime.backtest_data_source
    /\ runtime.request[1].trading_mode = "backtest"
    /\ current_ts > start_ts
    /\ ret.val.timestamp_ms = current_ts

\* a backtest request without its range, or with a range that is not start < end
Misconfigured(request) ==
    /\ request.trading_mode = "backtest"
    /\ \/ request.backtest_start_ts = Nothing
       \/ request.backtest_end_ts = Nothing
       \/ request.backtest_start_ts[1] >= request.backtest_end_ts[1]

\* C24: creating a backtest runtime with a missing start or end timestamp, or
\* with start_ts >= end_ts, raises, and then no data source has been constructed
\* and no preload, hence no provider fetch, has begun.
C24_MisconfigurationFatal ==
    (ret.op = "create_strategy_runtime" /\ Misconfigured(ret.args[1])) =>
        /\ ret.val.outcome = "ValueError"
        /\ runtime.status = "raised"
        /\ ~runtime.constructed
        /\ inflight = Idle
        /\ candle_cache = [s \in {} |-> <<>>]

\* a creation refused for a range that ends before it starts
C24_Witness ==
    /\ ret.op = "create_strategy_runtime"
    /\ ret.args[1].trading_mode = "backtest"
    /\ ret.args[1].backtest_start_ts = Some(2) /\ ret.args[1].backtest_end_ts = Some(1)
    /\ ret.val.outcome = "ValueError"
    /\ ~runtime.constructed

\* the symbol tasks of the calls made
TaskIds == {<<p, j>> \in (1..MaxCalls) \X (1..Len(ConfiguredSymbols)) :
               p <= Len(passes) /\ j <= Len(passes[p].tasks)}
TaskOf(id) == passes[id[1]].tasks[id[2]]

\* C25: a symbol's first page is requested with since = start_ts; every later
\* page is requested with since = the last timestamp of the page before it + 1,
\* that page having been received and being neither empty nor ended at or
\* after end_ts; a task that ended on a page ended on an empty page or on one
\* whose last timestamp is >= end_ts.
C25_PaginationProtocol ==
    \A id \in TaskIds :
        LET task == TaskOf(id)
        IN  /\ (task.pc = "fetch" /\ task.requested = 1) =>
                   (task.since = start_ts /\ task.raw = <<>>)
            /\ (task.pc = "fetch" /\ task.requested > 1) =>
                   /\ task.raw # <<>>
                   /\ Last(task.raw)[1] < end_ts
                   /\ task.since = Last(task.raw)[1] + 1
            /\ task.pc = "done" =>
                   (task.raw = <<>> \/ Last(task.raw)[1] >= end_ts)

\* a task on its third request, and a task ended by a page that reaches end_ts
C25_Witness ==
    \E a \in TaskIds, b \in TaskIds :
        /\ TaskOf(a).pc = "fetch" /\ TaskOf(a).requested = 3
        /\ TaskOf(a).since = Last(TaskOf(a).raw)[1] + 1
        /\ TaskOf(b).pc = "done" /\ TaskOf(b).raw # <<>>
        /\ Last(TaskOf(b).raw)[1] >= end_ts

\* C26: once a page holds a row with ts > end_ts, whatever the order of its
\* rows, the symbol's task requests no further page.
C26_BeyondEndsPaging ==
    \A id \in TaskIds :
        (TaskOf(id).pc = "fetch" /\ TaskOf(id).requested > 1) =>
            \A i \in 1..Len(TaskOf(id).raw) : TaskOf(id).raw[i][1] <= end_ts

\* the same for the pages whose rows ascend: it holds
AscendingBeyondEndsPaging ==
    \A id \in TaskIds :
        (TaskOf(id).pc = "fetch" /\ TaskOf(id).requested > 1 /\ Ascending(TaskOf(id).raw)) =>
            \A i \in 1..Len(TaskOf(id).raw) : TaskOf(id).raw[i][1] <= end_ts

\* an ascending page that runs beyond end_ts has ended a task
AscendingBeyondSeen ==
    \E id \in TaskIds :
        /\ TaskOf(id).pc = "done" /\ Len(TaskOf(id).raw) = 2 /\ Ascending(TaskOf(id).raw)
        /\ TaskOf(id).raw[1][1] <= end_ts
        /\ TaskOf(id).raw[2][1] > end_ts

\* C27: the number of pages is not bounded: against a provider whose every page
\* is non-empty with a last timestamp before end_ts, each answer leaves the
\* symbol's task with a further request outstanding, however many pages it has
\* received, and preload_data never completes.
C27_PagesForever ==
    /\ ~is_preloaded
    /\ \A p \in 1..Len(passes) : passes[p].status = "running"
    /\ \A id \in TaskIds : TaskOf(id).pc = "fetch"

\* a task that has made MaxCounted requests or more and is waiting for a further page
C27_Witness ==
    \E id \in TaskIds :
        /\ TaskOf(id).pc = "fetch" /\ TaskOf(id).requested = MaxCounted
        /\ TaskOf(id).raw # <<>> /\ Last(TaskOf(id).raw)[1] < end_ts
        /\ ~is_preloaded

\* call p has ended normally and the loaded flag is set
CompletedLoaded(p) ==
    /\ Len(passes) >= p
    /\ passes[p].status \in {"returned", "skipped"}
    /\ is_preloaded

\* C28: against a provider that honours the cursor and answers every request,
\* each symbol's paging ends after finitely many pages and a preload_data call
\* that was made eventually completes with the loaded flag set.
C28_HonestLoadCompletes ==
    \A p \in 1..MaxCalls : (Len(passes) >= p) ~> CompletedLoaded(p)

\* the same where every client can be built: it holds, every task having ended
BuiltHonestLoadCompletes ==
    \A p \in 1..MaxCalls :
        (Len(passes) >= p) ~> (CompletedLoaded(p) /\ AllEnded(passes[p].tasks))

\* and there the cursor of a task grows with every page it receives
CursorIncreases ==
    [][\A id \in TaskIds :
          (passes'[id[1]].tasks # <<>> /\ passes'[id[1]].tasks[id[2]].requested > TaskOf(id).requested)
              => passes'[id[1]].tasks[id[2]].since > TaskOf(id).since]_vars

\* a task of a call that completed had gone on to a second page
HonestPagingSeen ==
    \E id \in TaskIds :
        /\ passes[id[1]].status = "returned" /\ is_preloaded
        /\ TaskOf(id).pc = "done" /\ TaskOf(id).requested = 2

\* the step in which call p stores the results of the interval it has fetched
StoresInterval(p) ==
    /\ passes[p].status = "running"
    /\ passes'[p].pending = Tail(passes[p].pending)
    /\ \A symbol \in Range(ConfiguredSymbols), iv \in Intervals :
          iv # Head(passes[p].pending) =>
              CacheGet(candle_cache', symbol, iv) = CacheGet(candle_cache, symbol, iv)

\* C29: a cache entry is written only in a step that stores the interval of
\* one call, and then every symbol task of that call and interval had ended:
\* none was still waiting for a page; the loaded flag is set only in a step
\* after which every interval the returning call asked for has its entries.
C29_FanInBeforeWrite ==
    [][/\ candle_cache' # candle_cache =>
              \E p \in 1..Len(passes) :
                  /\ StoresInterval(p)
                  /\ \A j \in 1..Len(passes[p].tasks) : passes[p].tasks[j].pc \in {"done", "failed"}
       /\ (is_preloaded' /\ ~is_preloaded) =>
              \E p \in 1..Len(passes) :
                  /\ passes[p].status = "running" /\ passes'[p].status = "returned"
                  /\ \A iv \in Range(passes[p].intervals), symbol \in Range(ConfiguredSymbols) :
                        HasEntry(candle_cache', symbol, iv)]_vars

\* one task has failed and the other is on a later page: nothing of their
\* interval is stored yet
C29_Witness ==
    \E a \in TaskIds, b \in TaskIds :
        /\ a[1] = b[1] /\ passes[a[1]].status = "running"
        /\ Len(passes[a[1]].intervals) = 2
        /\ TaskOf(a).pc = "failed" /\ TaskOf(b).pc = "fetch" /\ TaskOf(b).requested > 1
        /\ \A symbol \in Range(ConfiguredSymbols) :
              ~HasEntry(candle_cache, symbol, Head(passes[a[1]].pending))
        /\ ~is_preloaded

\* C30: a preload_data call made while an earlier call on the same data source
\* is still in progress issues no provider request and writes no cache entry.
C30_OverlapFetchesNothing ==
    \A p \in 1..Len(passes) :
        passes[p].overlaps => (passes[p].tasks = <<>> /\ passes[p].pending = passes[p].intervals)

\* a call made after an earlier one has returned, none being in progress, does
\* nothing: it holds
LaterCallSkipped ==
    \A p \in 1..Len(passes) :
        (~passes[p].overlaps /\ \E q \in 1..(p - 1) : passes[q].status = "returned") =>
            passes[p].status = "skipped"

\* both of two overlapping calls have stored an interval
OverlapSeen ==
    /\ Len(passes) = 2 /\ passes[2].overlaps
    /\ passes[1].pending # passes[1].intervals
    /\ passes[2].pending # passes[2].intervals

\* what a task has become, its client apart
Outcome(task) ==
    [pc |-> task.pc, since |-> task.since, requested |-> task.requested, raw |-> task.raw,
     candles |-> task.candles]

\* C31: a symbol task of the intraday loader has closed its client exactly once
\* when it has ended, whether it ended normally, on a failure of its first page
\* or on a failure of a later page, and not before; its results are stored only
\* after that; the step that ends a task leaves the task as the provider's
\* answer alone determines, whether or not the close raised, and leaves every
\* other task as it was.
C31_ClientClosedOnce ==
    [][/\ \A id \in TaskIds :
              /\ TaskOf(id).pc = "fetch" => TaskOf(id).closed = 0
              /\ TaskOf(id).pc \in {"done", "failed"} => TaskOf(id).closed = 1
       /\ candle_cache' # candle_cache =>
              \E p \in 1..Len(passes) :
                  /\ StoresInterval(p)
                  /\ \A j \in 1..Len(passes[p].tasks) : passes[p].tasks[j].closed = 1
       /\ \A id \in TaskIds :
              (TaskOf(id).pc = "fetch" /\ passes'[id[1]].tasks[id[2]] # TaskOf(id)) =>
                  /\ \E r \in Responses :
                        Outcome(passes'[id[1]].tasks[id[2]])
                            = Outcome(TaskAfter(variant, TaskOf(id), r, ConfiguredSymbols[id[2]],
                                                Head(passes[id[1]].pending), end_ts))
                  /\ \A other \in TaskIds \ {id} :
                        passes'[other[1]].tasks[other[2]] = TaskOf(other)]_vars

\* a task ended on a failure of its second page and one ended normally, with
\* candles, though closing its client raised; both closed their clients once
C31_Witness ==
    \E a \in TaskIds, b \in TaskIds :
        /\ TaskOf(a).pc = "failed" /\ TaskOf(a).requested = 2 /\ TaskOf(a).closed = 1
        /\ TaskOf(b).pc = "done" /\ TaskOf(b).candles # <<>>
        /\ TaskOf(b).close_failed /\ TaskOf(b).closed = 1

\* the intervals with an entry in the cache, and the finest of a set of them
PreloadedIntervals ==
    {iv \in Intervals : \E s \in Range(ConfiguredSymbols) : HasEntry(candle_cache, s, iv)}
Finest(ivs) == IF "1m" \in ivs THEN "1m" ELSE "1d"

\* C32: once intervals have been preloaded, get_market_snapshot derives each
\* symbol's record from the symbol's series in the finest preloaded interval:
\* a symbol with a candle at or before current_ts in that series is in the
\* snapshot, with the timestamp and close of the latest such candle.
C32_SnapshotFinestInterval ==
    (ret.op = "get_market_snapshot" /\ PreloadedIntervals # {}) =>
        \A s \in Range(QueriedSymbols) :
            LET series == CacheGet(candle_cache, s, Finest(PreloadedIntervals))
                visible == VisibleIn(series)
            IN  visible # {} =>
                    /\ s \in DOMAIN ret.val
                    /\ \E i \in visible :
                          /\ \A j \in visible : series[j].ts <= series[i].ts
                          /\ ret.val[s].timestamp = series[i].ts
                          /\ ret.val[s].last = series[i].close

\* the same where the finest preloaded interval is the one the data source
\* reads ("1m" in the intraday source, "1d" in the daily one): it holds
SnapshotFinestWhenPrimary ==
    (ret.op = "get_market_snapshot" /\ PreloadedIntervals # {}
        /\ Finest(PreloadedIntervals) = PrimaryInterval(variant)) =>
        \A s \in Range(QueriedSymbols) :
            LET series == CacheGet(candle_cache, s, Finest(PreloadedIntervals))
                visible == VisibleIn(series)
            IN  visible # {} =>
                    /\ s \in DOMAIN ret.val
                    /\ \E i \in visible :
                          /\ \A j \in visible : series[j].ts <= series[i].ts
                          /\ ret.val[s].timestamp = series[i].ts
                          /\ ret.val[s].last = series[i].close

\* a snapshot that leaves out a symbol whose only preloaded series has a
\* candle at or before current_ts
FinestIntervalIgnoredSeen ==
    /\ ret.op = "get_market_snapshot"
    /\ PreloadedIntervals # {} /\ Finest(PreloadedIntervals) # PrimaryInterval(variant)
    /\ \E s \in Range(QueriedSymbols) :
          /\ VisibleIn(CacheGet(candle_cache, s, Finest(PreloadedIntervals))) # {}
          /\ s \notin DOMAIN ret.val

\* C33: with start_ts < end_ts, under repeated advance_time calls with positive
\* deltas is_finished() becomes true, after a reset too; once it is true a
\* further positive advance leaves it true; a reset makes it false.
C33_ReplayTerminates ==
    /\ []<>IsFinished(current_ts, end_ts)
    /\ [][(IsFinished(current_ts, end_ts) /\ ret'.op = "advance_time")
              => IsFinished(current_ts', end_ts')]_vars
    /\ [][ret'.op = "reset" => ~IsFinished(current_ts', end_ts')]_vars

\* is_finished() answering true beyond end_ts, reached by advances alone
C33_Witness ==
    /\ ret.op = "is_finished" /\ ret.val = TRUE
    /\ start_ts < end_ts /\ current_ts > end_ts
    /\ since_reset = current_ts - start_ts

\* a simulator of the same configuration that has processed nothing
FreshGateway == [gateway EXCEPT !.executed = <<>>]

\* C34: the result of an instruction is the one a simulator of equal
\* configuration with an empty log gives for the same instruction, the same
\* price answers and the same market-open state: neither the instructions of
\* earlier calls nor those ahead of it in the same call influence it.
C34_HistoryFree ==
    Executed =>
        \A i \in 1..Len(ExecInstructions) :
            ExecResults[i] = ExecuteOne(FreshGateway, ExecInstructions[i], ExecMarkets[i],
                                        ExecPriceMap).result

\* a fill by a simulator whose log already held another instruction of an earlier call
C34_Witness ==
    /\ Executed /\ Len(ExecInstructions) = 1
    /\ Len(gateway.executed) = 2 /\ gateway.executed[1] # gateway.executed[2]
    /\ ExecResults[1].status = "FILLED" /\ ExecResults[1].side = "SELL"

\* C35: the side of every result, filled or rejected, is the instruction's
\* explicit side when it has one; otherwise the side derived from its action
\* tag when the derivation yields one; otherwise BUY.
C35_SideResolution ==
    Executed =>
        \A i \in 1..Len(ExecInstructions) :
            LET inst == ExecInstructions[i]
                derived == derive_side_from_action(inst.action)
            IN  /\ inst.side # "None" => ExecResults[i].side = inst.side
                /\ (inst.side = "None" /\ derived # "None") => ExecResults[i].side = derived
                /\ (inst.side = "None" /\ derived = "None") => ExecResults[i].side = "BUY"

\* a rejected SELL whose action tag says to buy, followed by a fill that fell
\* back to BUY for want of a side and of an action tag
C35_Witness ==
    /\ Executed /\ Len(ExecInstructions) = 2
    /\ ExecInstructions[1].side = "SELL" /\ ExecInstructions[1].action = "to_buy"
    /\ ExecResults[1].status = "REJECTED" /\ ExecResults[1].side = "SELL"
    /\ ExecInstructions[2].side = "None" /\ ExecInstructions[2].action = "None"
    /\ ExecResults[2].status = "FILLED" /\ ExecResults[2].side = "BUY"

\* the tenths of a second between midnight and a local time
TenthsOfDay(t) == ((t.hour * 60 + t.minute) * 60 + t.second) * 10 + t.tenth

\* C36: is_us_market_open is true iff the US/Eastern local day is Monday to
\* Friday and the local time of day t satisfies 09:30 <= t <= 16:00, both
\* boundary instants counting as open.
C36_MarketHours ==
    ret.op = "is_us_market_open" =>
        (ret.val <=> /\ ret.args[1] \in 0..4
                     /\ (9 * 60 + 30) * 600 <= TenthsOfDay(ret.args[2])
                     /\ TenthsOfDay(ret.args[2]) <= 16 * 60 * 600)

\* open on a Friday at 16:00:00 sharp
C36_Witness ==
    /\ ret.op = "is_us_market_open" /\ ret.val = TRUE
    /\ ret.args[1] = 4 /\ ret.args[2] = Time(16, 0, 0, 0)

\* C37: after a preload every candle in the cache has start_ts <= ts <= end_ts,
\* in both loaders and whatever the provider answered.
C37_CachedWithinRange ==
    \A symbol \in Range(ConfiguredSymbols), iv \in Intervals :
        LET series == CacheGet(candle_cache, symbol, iv)
        IN  \A i \in 1..Len(series) : start_ts <= series[i].ts /\ series[i].ts <= end_ts

\* a completed preload has cached a candle from before start_ts
EarlyCandleSeen ==
    /\ preload_completed
    /\ \E symbol \in Range(ConfiguredSymbols), iv \in Intervals :
          LET series == CacheGet(candle_cache, symbol, iv)
          IN  \E i \in 1..Len(series) : series[i].ts < start_ts

\* a backtest request with both timestamps supplied and start_ts < end_ts
WellFormed(request) ==
    /\ request.trading_mode = "backtest"
    /\ request.backtest_start_ts # Nothing /\ request.backtest_end_ts # Nothing
    /\ request.backtest_start_ts[1] < request.backtest_end_ts[1]

\* the creation has passed validation: a data source of the variant of the
\* asset class exists for the requested range, its clock at start_ts and its
\* preload asked for "1d" (stocks) or "1m"; once the runtime is returned that
\* data source is attached to it
SetupAccepted(request) ==
    /\ ret.val.outcome # "ValueError"
    /\ runtime.constructed
    /\ variant = (IF request.asset_class = "stock" THEN "stock" ELSE "crypto")
    /\ start_ts = request.backtest_start_ts[1] /\ end_ts = request.backtest_end_ts[1]
    /\ ret.val.outcome = "awaiting" =>
          /\ current_ts = start_ts
          /\ inflight.args = <<IF request.asset_class = "stock" THEN <<"1d">> ELSE <<"1m">>>>
    /\ ret.val.outcome = "returned" => (runtime.backtest_data_source /\ is_preloaded)

\* C38: every backtest request with both timestamps supplied and
\* start_ts < end_ts, start_ts = 0 included, passes validation and yields the
\* data source of its asset class, preloaded with "1d" or "1m", its clock at
\* start_ts, which the runtime then reads its timestamps from.
C38_OnlyMisconfigurationRejected ==
    (ret.op = "create_strategy_runtime" /\ WellFormed(ret.args[1])) => SetupAccepted(ret.args[1])

\* the same for the requests whose start_ts is positive: it holds
PositiveStartAccepted ==
    (ret.op = "create_strategy_runtime" /\ WellFormed(ret.args[1])
        /\ ret.args[1].backtest_start_ts[1] > 0) => SetupAccepted(ret.args[1])

\* a stock backtest from 1 to 2 whose runtime was returned with its data source
PositiveStartSeen ==
    /\ ret.op = "create_strategy_runtime" /\ ret.val.outcome = "returned"
    /\ ret.args[1].asset_class = "stock"
    /\ ret.args[1].backtest_start_ts = Some(1) /\ ret.args[1].backtest_end_ts = Some(2)
    /\ runtime.backtest_data_source /\ variant = "stock"

\* a backtest from 0 refused as if its range were missing
ZeroStartRefusedSeen ==
    /\ ret.op = "create_strategy_runtime" /\ ret.val.outcome = "ValueError"
    /\ ret.args[1].backtest_start_ts = Some(0) /\ ret.args[1].backtest_end_ts = Some(2)

(***************************************************************************)
(* C39: item stores agree on saving an item again                          *)
(***************************************************************************)
\* the store holds an item of that item_id in that conversation
MemoryHolds(items, item) ==
    \E k \in 1..Len(MemoryGetItems(items)) :
        /\ MemoryGetItems(items)[k].item_id = item.item_id
        /\ MemoryGetItems(items)[k].conversation_id = item.conversation_id

PostgresHolds(rows, item) ==
    \E k \in 1..Len(rows) :
        rows[k].item_id = item.item_id /\ rows[k].conversation_id = item.conversation_id

MemoryCountsKept ==
    \A c \in ConversationIds :
        MemoryGetItemCount(item_store'.memory, c) = MemoryGetItemCount(item_store.memory, c)

PostgresCountsKept ==
    \A c \in ConversationIds :
        PostgresGetItemCount(item_store'.postgres, c) = PostgresGetItemCount(item_store.postgres, c)

\* C39: saving an item whose item_id is already stored in its conversation replaces the
\* stored item and leaves every conversation's item count as it was, in the in-memory
\* store and in the database-backed store alike; and update_task_component_status, which
\* saves each item it edited again, changes get_item_count of no conversation in either
\* store.
C39_ResaveKeepsCount ==
    [][/\ (ret'.op = "save_item" /\ MemoryHolds(item_store.memory, ret'.args[1]))
            => MemoryCountsKept
       /\ (ret'.op = "save_item" /\ PostgresHolds(item_store.postgres, ret'.args[1]))
            => PostgresCountsKept /\ PostgresHolds(item_store'.postgres, ret'.args[1])
       /\ ret'.op = "update_task_component_status"
            => MemoryCountsKept /\ PostgresCountsKept]_vars

\* the database-backed store alone does as C39 says: an item saved again takes the place
\* of the stored row, and the status update changes no count
PostgresResaveKeepsCount ==
    [][/\ (ret'.op = "save_item" /\ PostgresHolds(item_store.postgres, ret'.args[1]))
            => /\ PostgresCountsKept
               /\ \E k \in 1..Len(item_store'.postgres) : item_store'.postgres[k] = ret'.args[1]
       /\ ret'.op = "update_task_component_status" => PostgresCountsKept]_vars

\* no two rows of the table share an item_id
PostgresItemIdUnique ==
    \A j, k \in 1..Len(item_store.postgres) :
        item_store.postgres[j].item_id = item_store.postgres[k].item_id => j = k

\* one controller item was saved once and its status updated: the in-memory store counts
\* it twice, the database-backed store once
UpdateCountedTwiceSeen ==
    /\ ret.op = "update_task_component_status"
    /\ Len(item_store.postgres) = 1
    /\ item_store.postgres[1].payload.task_status = "failed"
    /\ MemoryGetItemCount(item_store.memory, item_store.postgres[1].conversation_id) = 2
    /\ PostgresGetItemCount(item_store.postgres, item_store.postgres[1].conversation_id) = 1

\* the same item was saved twice: two entries in the in-memory store, one row in the table
ResaveCountedTwiceSeen ==
    /\ ret.op = "save_item"
    /\ Len(item_store.postgres) = 1
    /\ item_store.postgres[1] = ret.args[1]
    /\ MemoryGetItems(item_store.memory) = <<ret.args[1], ret.args[1]>>

=============================================================================
